---- MODULE Spec2Model ----
(***************************************************************************)
(* A model of the workflow orchestrator (src/workflow_orchestrator): the   *)
(* store (dotted-path reads and writes over a nested document), the        *)
(* templating of placeholders, the conditional evaluator, the executor of  *)
(* one execute node and the engine's program-counter loop.                 *)
(*                                                                         *)
(* Python strings are sequences of one-character strings, so that          *)
(* splitting, stripping, prefix tests and digit parsing are computed as    *)
(* the code computes them.  JSON values are tagged records [t, v]:         *)
(*   "null" | "bool" | "int" | "str" | "map" (a function from keys to      *)
(*   values) | "list".                                                     *)
(* An operation that can raise returns a record whose field err names the  *)
(* exception ("none" when it returns), together with the document as the   *)
(* operation left it.                                                      *)
(***************************************************************************)
EXTENDS Integers, Sequences, FiniteSets, TLC

VARIABLES doc, bank, config, current, phase, error, trace, calls, log

vars == <<doc, bank, config, current, phase, error, trace, calls, log>>

(***************************************************************************)
(* Values                                                                  *)
(***************************************************************************)
None == [t |-> "null", v |-> 0]

VBool(b) == [t |-> "bool", v |-> b]

VInt(n) == [t |-> "int", v |-> n]

VStr(s) == [t |-> "str", v |-> s]

VMap(f) == [t |-> "map", v |-> f]

VList(s) == [t |-> "list", v |-> s]

EmptyMap == VMap(<<>>)

\* x = value; body(x): the value is computed once and named in the body
Bind(value, body(_)) == body(value)

IsDict(x) == x.t = "map"

IsStr(x) == x.t = "str"

Has(d, k) == k \in DOMAIN d.v

Put(d, k, x) == VMap((k :> x) @@ d.v)

Del(d, k) == VMap([j \in (DOMAIN d.v) \ {k} |-> d.v[j]])

\* dict.setdefault(k, x)
SetDefault(d, k, x) == IF Has(d, k) THEN d ELSE Put(d, k, x)

\* dict.update(other): the entries of other win
Update(d, other) == VMap(other.v @@ d.v)

\* Python truthiness of a JSON value
Truthy(x) ==
    CASE x.t = "null" -> FALSE
      [] x.t = "bool" -> x.v
      [] x.t = "int" -> x.v # 0
      [] x.t = "str" -> Len(x.v) > 0
      [] x.t = "map" -> DOMAIN x.v # {}
      [] x.t = "list" -> Len(x.v) > 0

(***************************************************************************)
(* Strings                                                                 *)
(***************************************************************************)
IsSpace(c) == c = " "

RECURSIVE LStrip(_)
LStrip(s) == IF s # <<>> /\ IsSpace(Head(s)) THEN LStrip(Tail(s)) ELSE s

RECURSIVE RStrip(_)
RStrip(s) ==
    IF s # <<>> /\ IsSpace(s[Len(s)]) THEN RStrip(SubSeq(s, 1, Len(s) - 1)) ELSE s

\* str.strip()
Strip(s) == RStrip(LStrip(s))

\* str.split(sep) for a one-character separator: "a..b" gives "a", "", "b"
RECURSIVE SplitAcc(_, _, _)
SplitAcc(s, sep, part) ==
    IF s = <<>> THEN <<part>>
    ELSE IF Head(s) = sep THEN <<part>> \o SplitAcc(Tail(s), sep, <<>>)
    ELSE SplitAcc(Tail(s), sep, Append(part, Head(s)))

Split(s, sep) == SplitAcc(s, sep, <<>>)

StartsWith(s, p) == Len(s) >= Len(p) /\ SubSeq(s, 1, Len(p)) = p

EndsWith(s, p) == Len(s) >= Len(p) /\ SubSeq(s, Len(s) - Len(p) + 1, Len(s)) = p

RECURSIVE StripParts(_)
StripParts(ps) ==
    IF ps = <<>> THEN <<>>
    ELSE IF Strip(Head(ps)) = <<>> THEN StripParts(Tail(ps))
    ELSE <<Strip(Head(ps))>> \o StripParts(Tail(ps))

\* [part.strip() for part in path.split(".") if part.strip()]
DottedParts(path) == StripParts(Split(path, "."))

S_created_at == <<"c", "r", "e", "a", "t", "e", "d", "_", "a", "t">>

S_metadata == <<"_", "m", "e", "t", "a", "d", "a", "t", "a">>

(***************************************************************************)
(* store.py                                                                *)
(***************************************************************************)
\* _split_path: the path is a str value here; ValueError on an empty or blank one
SplitPathErr(path) == IF path = <<>> \/ Strip(path) = <<>> THEN "ValueError" ELSE "none"

_split_path(path) == DottedParts(path)

RECURSIVE ResolveParts(_, _)
ResolveParts(cur, parts) ==
    IF parts = <<>> THEN [err |-> "none", val |-> cur]
    ELSE IF ~IsDict(cur) \/ ~Has(cur, Head(parts))
         THEN [err |-> "PathResolutionError", val |-> None]
    ELSE ResolveParts(cur.v[Head(parts)], Tail(parts))

\* resolve_path(data, path, raise_on_missing=True)
resolve_path(data, path) ==
    IF SplitPathErr(path) # "none" THEN [err |-> "ValueError", val |-> None]
    ELSE ResolveParts(data, _split_path(path))

\* the loop of an ensure_container that a null under a parent segment blocks
RECURSIVE EnsureLoop_strict(_, _)
EnsureLoop_strict(cur, parents) ==
    IF parents = <<>> THEN [err |-> "none", val |-> cur]
    ELSE IF ~IsDict(cur) THEN [err |-> "TypeError", val |-> cur]
    ELSE LET part == Head(parents)
             fresh == ~Has(cur, part)
             child == IF fresh THEN EmptyMap ELSE cur.v[part]
         IN  IF ~fresh /\ ~IsDict(child) THEN [err |-> "TypeError", val |-> cur]
             ELSE Bind(EnsureLoop_strict(child, Tail(parents)),
                       LAMBDA rest : [err |-> rest.err, val |-> Put(cur, part, rest.val)])

\* the loop of an ensure_container that clears the value in its way before
\* it raises
RECURSIVE EnsureLoop_clears(_, _)
EnsureLoop_clears(cur, parents) ==
    IF parents = <<>> THEN [err |-> "none", val |-> cur]
    ELSE IF ~IsDict(cur) THEN [err |-> "TypeError", val |-> cur]
    ELSE LET part == Head(parents)
             fresh == ~Has(cur, part) \/ cur.v[part] = None
             child == IF fresh THEN EmptyMap ELSE cur.v[part]
         IN  IF ~fresh /\ ~IsDict(child)
             THEN [err |-> "TypeError", val |-> Put(cur, part, EmptyMap)]
             ELSE Bind(EnsureLoop_clears(child, Tail(parents)),
                       LAMBDA rest : [err |-> rest.err, val |-> Put(cur, part, rest.val)])

\* The loop of ensure_container over parts[:-1], from the mapping cur: the
\* mappings it creates stay created when a later segment raises.
RECURSIVE EnsureLoop(_, _)
EnsureLoop(cur, parents) ==
    IF parents = <<>> THEN [err |-> "none", val |-> cur]
    ELSE IF ~IsDict(cur) THEN [err |-> "TypeError", val |-> cur]
    ELSE LET part == Head(parents)
             fresh == ~Has(cur, part) \/ cur.v[part] = None
             child == IF fresh THEN EmptyMap ELSE cur.v[part]
         IN  IF ~fresh /\ ~IsDict(child) THEN [err |-> "TypeError", val |-> cur]
             ELSE Bind(EnsureLoop(child, Tail(parents)),
                       LAMBDA rest : [err |-> rest.err, val |-> Put(cur, part, rest.val)])

\* ensure_container(data, path): the document with the parents created, the
\* parts leading to the parent mapping, and the final key
ensure_container(data, path) ==
    IF SplitPathErr(path) # "none"
    THEN [err |-> "ValueError", doc |-> data, parents |-> <<>>, key |-> <<>>]
    ELSE Bind(_split_path(path), LAMBDA parts :
           IF Len(parts) = 1
           THEN [err |-> "none", doc |-> data, parents |-> <<>>, key |-> parts[1]]
           ELSE IF Len(parts) = 0
           THEN [err |-> "IndexError", doc |-> data, parents |-> <<>>, key |-> <<>>]
           ELSE Bind(EnsureLoop(data, SubSeq(parts, 1, Len(parts) - 1)), LAMBDA r :
                  [err |-> r.err, doc |-> r.val,
                   parents |-> SubSeq(parts, 1, Len(parts) - 1), key |-> parts[Len(parts)]]))

\* container[key] = x, for the mapping reached from cur through parents
RECURSIVE SetIn(_, _, _, _)
SetIn(cur, parents, key, x) ==
    IF parents = <<>> THEN Put(cur, key, x)
    ELSE Put(cur, Head(parents), SetIn(cur.v[Head(parents)], Tail(parents), key, x))

\* write_path storing under the final segment as split, not stripped
write_path_rawkey(data, path, value) ==
    Bind(ensure_container(data, path), LAMBDA c :
      IF c.err # "none" THEN [err |-> c.err, doc |-> c.doc]
      ELSE Bind(Split(path, "."), LAMBDA raw :
             [err |-> "none", doc |-> SetIn(c.doc, c.parents, raw[Len(raw)], value)]))

\* write_path(data, path, value)
write_path(data, path, value) ==
    Bind(ensure_container(data, path), LAMBDA c :
      IF c.err # "none" THEN [err |-> c.err, doc |-> c.doc]
      ELSE [err |-> "none", doc |-> SetIn(c.doc, c.parents, c.key, value)])

\* write_with_metadata keeping the metadata beside the value whatever it is
write_with_metadata_beside(data, path, value, created_at, provenance) ==
    Bind(write_path(data, path, value), LAMBDA w :
      IF w.err # "none" THEN [err |-> w.err, doc |-> w.doc]
      ELSE Bind(ensure_container(w.doc, path), LAMBDA c :
             [err |-> "none",
              doc |-> SetIn(c.doc, c.parents, c.key \o S_metadata,
                            Update(VMap(S_created_at :> created_at), provenance))]))

\* write_with_metadata(data, path, value, created_at=..., provenance=...):
\* created_at is the isoformat string, provenance a mapping (empty for None)
write_with_metadata(data, path, value, created_at, provenance) ==
    Bind(write_path(data, path, value), LAMBDA w :
      IF w.err # "none" THEN [err |-> w.err, doc |-> w.doc]
      ELSE Bind(resolve_path(w.doc, path), LAMBDA target :
        IF target.err # "none" THEN [err |-> target.err, doc |-> w.doc]
        ELSE Bind(ensure_container(w.doc, path), LAMBDA c :
          IF IsDict(target.val)
          THEN [err |-> "none",
                doc |-> SetIn(w.doc, c.parents, c.key,
                              VMap(SetDefault(target.val, S_created_at, created_at).v
                                       @@ provenance.v))]
          ELSE [err |-> "none",
                doc |-> SetIn(c.doc, c.parents, c.key \o S_metadata,
                              Update(VMap(S_created_at :> created_at), provenance))])))

(***************************************************************************)
(* Integers as decimal strings (str(n), int(s), str.isdigit)               *)
(***************************************************************************)
Digits == <<"0", "1", "2", "3", "4", "5", "6", "7", "8", "9">>

IsDigitChar(c) == \E i \in 1..10 : Digits[i] = c

DigitVal(c) == (CHOOSE i \in 1..10 : Digits[i] = c) - 1

\* str.isdigit(): non-empty and every character a digit
IsDigitStr(s) == s # <<>> /\ \A i \in 1..Len(s) : IsDigitChar(s[i])

RECURSIVE NatToStr(_)
NatToStr(n) == IF n < 10 THEN <<Digits[n + 1]>> ELSE NatToStr(n \div 10) \o <<Digits[(n % 10) + 1]>>

IntToStr(n) == IF n < 0 THEN <<"-">> \o NatToStr(-n) ELSE NatToStr(n)

RECURSIVE StrToNatAcc(_, _)
StrToNatAcc(s, acc) ==
    IF s = <<>> THEN acc ELSE StrToNatAcc(Tail(s), 10 * acc + DigitVal(Head(s)))

\* int(s) for a string of digits
StrToNat(s) == StrToNatAcc(s, 0)

(***************************************************************************)
(* Numbers.  A float is held in tenths ([t |-> "float", v |-> 9] is 0.9);  *)
(* the float texts of the model have one fractional digit.  A bool is an   *)
(* int to Python (isinstance(True, int), True == 1).                       *)
(***************************************************************************)
VFloat(tenths) == [t |-> "float", v |-> tenths]

\* isinstance(x, (int, float))
IsNumeric(x) == x.t \in {"int", "float", "bool"}

\* the number in tenths
Tenths(x) ==
    CASE x.t = "int" -> 10 * x.v
      [] x.t = "float" -> x.v
      [] x.t = "bool" -> IF x.v THEN 10 ELSE 0

\* current + 1
PlusOne(x) == IF x.t = "float" THEN VFloat(x.v + 10) ELSE VInt(Tenths(x) \div 10 + 1)

Uppers == <<"A", "B", "C", "D", "E", "F", "G", "H", "I", "J", "K", "L", "M",
            "N", "O", "P", "Q", "R", "S", "T", "U", "V", "W", "X", "Y", "Z">>

Lowers == <<"a", "b", "c", "d", "e", "f", "g", "h", "i", "j", "k", "l", "m",
            "n", "o", "p", "q", "r", "s", "t", "u", "v", "w", "x", "y", "z">>

LowerChar(c) ==
    IF \E i \in 1..26 : Uppers[i] = c THEN Lowers[CHOOSE i \in 1..26 : Uppers[i] = c] ELSE c

\* str.lower()
Lower(s) == [i \in 1..Len(s) |-> LowerChar(s[i])]

S_true == <<"t", "r", "u", "e">>

S_false == <<"f", "a", "l", "s", "e">>

S_none == <<"n", "o", "n", "e">>

S_null == <<"n", "u", "l", "l">>

\* the text after an optional sign; int() and float() ignore blanks around
Unsigned(s) ==
    Bind(Strip(s), LAMBDA u : IF u # <<>> /\ Head(u) \in {"+", "-"} THEN Tail(u) ELSE u)

Signed(s, n) == IF Strip(s) # <<>> /\ Head(Strip(s)) = "-" THEN -n ELSE n

\* int(s) succeeds: an optional sign and digits
IsIntText(s) == IsDigitStr(Unsigned(s))

\* float(s) succeeds, for the texts "<digits>.<digit>" with an optional sign
IsFloatText(s) ==
    Bind(Unsigned(s), LAMBDA u :
      /\ Len(u) >= 3
      /\ u[Len(u) - 1] = "."
      /\ IsDigitChar(u[Len(u)])
      /\ IsDigitStr(SubSeq(u, 1, Len(u) - 2)))

ParseInt(s) == VInt(Signed(s, StrToNat(Unsigned(s))))

ParseFloat(s) ==
    Bind(Unsigned(s), LAMBDA u :
      VFloat(Signed(s, 10 * StrToNat(SubSeq(u, 1, Len(u) - 2)) + DigitVal(u[Len(u)]))))

HasDot(s) == \E i \in 1..Len(s) : s[i] = "."

\* _coerce_literal / _attempt_literal: [some |-> FALSE] is the None that the
\* callers read as "no literal", which the text "none" gives too
_coerce_literal(expr) ==
    Bind(Lower(expr), LAMBDA lowered :
      IF lowered = S_true THEN [some |-> TRUE, val |-> VBool(TRUE)]
      ELSE IF lowered = S_false THEN [some |-> TRUE, val |-> VBool(FALSE)]
      ELSE IF lowered = S_none THEN [some |-> FALSE, val |-> None]
      ELSE IF HasDot(expr)
      THEN (IF IsFloatText(expr) THEN [some |-> TRUE, val |-> ParseFloat(expr)]
            ELSE [some |-> FALSE, val |-> None])
      ELSE IF IsIntText(expr) THEN [some |-> TRUE, val |-> ParseInt(expr)]
      ELSE [some |-> FALSE, val |-> None])

FloatToStr(n) ==
    (IF n < 0 THEN <<"-">> ELSE <<>>)
        \o NatToStr((IF n < 0 THEN -n ELSE n) \div 10) \o <<".">>
        \o NatToStr((IF n < 0 THEN -n ELSE n) % 10)

\* str(value) of a mapping or list: the model keeps no insertion order, and
\* writes the entries of a mapping in the order of a fixed choice
RECURSIVE PyRepr(_)
RECURSIVE ReprItems(_, _)
RECURSIVE ReprSeq(_)
PyRepr(x) ==
    CASE x.t = "null" -> <<"N", "o", "n", "e">>
      [] x.t = "bool" -> IF x.v THEN <<"T", "r", "u", "e">> ELSE <<"F", "a", "l", "s", "e">>
      [] x.t = "int" -> IntToStr(x.v)
      [] x.t = "float" -> FloatToStr(x.v)
      [] x.t = "str" -> <<"'">> \o x.v \o <<"'">>
      [] x.t = "map" -> <<"{">> \o ReprItems(x.v, DOMAIN x.v) \o <<"}">>
      [] x.t = "list" -> <<"[">> \o ReprSeq(x.v) \o <<"]">>

ReprItems(f, keys) ==
    IF keys = {} THEN <<>>
    ELSE LET k == CHOOSE j \in keys : TRUE
         IN  <<"'">> \o k \o <<"'", ":", " ">> \o PyRepr(f[k])
                 \o (IF keys = {k} THEN <<>> ELSE <<",", " ">> \o ReprItems(f, keys \ {k}))

ReprSeq(s) ==
    IF s = <<>> THEN <<>>
    ELSE PyRepr(Head(s)) \o (IF Len(s) = 1 THEN <<>> ELSE <<",", " ">> \o ReprSeq(Tail(s)))

\* _stringify
_stringify(value) ==
    CASE value.t \in {"map", "list"} -> PyRepr(value)
      [] value.t = "bool" -> IF value.v THEN S_true ELSE S_false
      [] value.t = "null" -> S_null
      [] value.t = "int" -> IntToStr(value.v)
      [] value.t = "float" -> FloatToStr(value.v)
      [] value.t = "str" -> value.v

(***************************************************************************)
(* templating.py                                                           *)
(***************************************************************************)
IsBrace(c) == c \in {"{", "}"}

\* the last index of the run of non-brace characters that starts at k
\* (k - 1 when s[k] is a brace or past the end)
RECURSIVE RunEnd(_, _)
RunEnd(s, k) == IF k <= Len(s) /\ ~IsBrace(s[k]) THEN RunEnd(s, k + 1) ELSE k - 1

\* PLACEHOLDER_PATTERN \{\{([^{}]+)\}\} matches at index i
MatchesAt(s, i) ==
    /\ i + 1 <= Len(s) /\ s[i] = "{" /\ s[i + 1] = "{"
    /\ Bind(RunEnd(s, i + 2), LAMBDA m :
          /\ m >= i + 2
          /\ m + 2 <= Len(s) /\ s[m + 1] = "}" /\ s[m + 2] = "}")

\* finditer: the leftmost non-overlapping matches from index i on, each with
\* its span (first and last index) and group(1)
RECURSIVE FindMatches(_, _)
FindMatches(s, i) ==
    IF i > Len(s) THEN <<>>
    ELSE IF MatchesAt(s, i)
    THEN Bind(RunEnd(s, i + 2), LAMBDA m :
           <<[first |-> i, last |-> m + 2, group |-> SubSeq(s, i + 2, m)]>>
               \o FindMatches(s, m + 3))
    ELSE FindMatches(s, i + 1)

S_vars_dot == <<"v", "a", "r", "s", ".">>

S_store_dot == <<"s", "t", "o", "r", "e", ".">>

S_plusplus == <<"+", "+">>

\* _resolve_mapping_path over the parts
RECURSIVE MappingParts(_, _)
MappingParts(cur, parts) ==
    IF parts = <<>> THEN [err |-> "none", val |-> cur]
    ELSE IF IsDict(cur) /\ Has(cur, Head(parts))
    THEN MappingParts(cur.v[Head(parts)], Tail(parts))
    ELSE [err |-> "TemplateError", val |-> None]

_resolve_mapping_path(mapping, path) == MappingParts(mapping, DottedParts(path))

\* the post-increment returned the raised value
_increment_var_returns_new(bankv, name, post) ==
    LET failed == [err |-> "TemplateError", val |-> None, vars |-> bankv]
    IN  Bind(DottedParts(name), LAMBDA parts :
          IF Len(parts) = 0 THEN failed
          ELSE Bind(MappingParts(bankv, SubSeq(parts, 1, Len(parts) - 1)), LAMBDA container :
            IF container.err # "none" \/ ~IsDict(container.val) THEN failed
            ELSE IF ~Has(container.val, parts[Len(parts)]) THEN failed
            ELSE Bind(container.val.v[parts[Len(parts)]], LAMBDA cur :
              IF ~IsNumeric(cur) THEN failed
              ELSE [err |-> "none",
                    val |-> PlusOne(cur),
                    vars |-> SetIn(bankv, SubSeq(parts, 1, Len(parts) - 1),
                                   parts[Len(parts)], PlusOne(cur))])))

\* _increment_var(vars, name, post=...): the value returned and the bank after
_increment_var(bankv, name, post) ==
    LET failed == [err |-> "TemplateError", val |-> None, vars |-> bankv]
    IN  Bind(DottedParts(name), LAMBDA parts :
          IF Len(parts) = 0 THEN failed
          ELSE Bind(MappingParts(bankv, SubSeq(parts, 1, Len(parts) - 1)), LAMBDA container :
            IF container.err # "none" \/ ~IsDict(container.val) THEN failed
            ELSE IF ~Has(container.val, parts[Len(parts)]) THEN failed
            ELSE Bind(container.val.v[parts[Len(parts)]], LAMBDA cur :
              IF ~IsNumeric(cur) THEN failed
              ELSE [err |-> "none",
                    val |-> IF post THEN cur ELSE PlusOne(cur),
                    vars |-> SetIn(bankv, SubSeq(parts, 1, Len(parts) - 1),
                                   parts[Len(parts)], PlusOne(cur))])))

\* an unresolved placeholder rendered as null
_evaluate_expression_defaults(expr, bankv, store) ==
    LET n == Len(expr)
        pure(e, x) == [err |-> e, val |-> x, vars |-> bankv]
    IN  IF expr = <<>> THEN pure("TemplateError", None)
        ELSE IF StartsWith(expr, S_plusplus) \/ EndsWith(expr, S_plusplus)
        THEN _increment_var(bankv,
                            IF StartsWith(expr, S_plusplus) THEN Strip(SubSeq(expr, 3, n))
                            ELSE Strip(SubSeq(expr, 1, n - 2)),
                            ~StartsWith(expr, S_plusplus))
        ELSE IF StartsWith(expr, S_vars_dot)
        THEN Bind(_resolve_mapping_path(bankv, SubSeq(expr, 6, n)),
                  LAMBDA r : pure("none", r.val))
        ELSE IF StartsWith(expr, S_store_dot)
        THEN Bind(resolve_path(store, SubSeq(expr, 7, n)), LAMBDA r :
               pure(IF r.err = "PathResolutionError" THEN "none" ELSE r.err, r.val))
        ELSE IF Has(bankv, expr) THEN pure("none", bankv.v[expr])
        ELSE Bind(_coerce_literal(expr), LAMBDA literal :
               IF literal.some THEN pure("none", literal.val)
               ELSE pure("none", None))

\* _evaluate_expression(expr, vars, store)
_evaluate_expression(expr, bankv, store) ==
    LET n == Len(expr)
        pure(e, x) == [err |-> e, val |-> x, vars |-> bankv]
    IN  IF expr = <<>> THEN pure("TemplateError", None)
        ELSE IF StartsWith(expr, S_plusplus) \/ EndsWith(expr, S_plusplus)
        THEN _increment_var(bankv,
                            IF StartsWith(expr, S_plusplus) THEN Strip(SubSeq(expr, 3, n))
                            ELSE Strip(SubSeq(expr, 1, n - 2)),
                            ~StartsWith(expr, S_plusplus))
        ELSE IF StartsWith(expr, S_vars_dot)
        THEN Bind(_resolve_mapping_path(bankv, SubSeq(expr, 6, n)),
                  LAMBDA r : pure(r.err, r.val))
        ELSE IF StartsWith(expr, S_store_dot)
        THEN Bind(resolve_path(store, SubSeq(expr, 7, n)), LAMBDA r :
               pure(IF r.err = "PathResolutionError" THEN "TemplateError" ELSE r.err, r.val))
        ELSE IF Has(bankv, expr) THEN pure("none", bankv.v[expr])
        ELSE Bind(_coerce_literal(expr), LAMBDA literal :
               IF literal.some THEN pure("none", literal.val)
               ELSE pure("TemplateError", None))

\* The loop of render_string over the matches: the joined text so far, the
\* last value and the bank, which keeps the increments made before an error
RECURSIVE RenderLoop(_, _, _, _, _, _)
RenderLoop(template, matches, cursor, combined, bankv, store) ==
    IF matches = <<>>
    THEN [err |-> "none", val |-> None, vars |-> bankv,
          text |-> combined \o SubSeq(template, cursor, Len(template))]
    ELSE LET m == Head(matches)
         IN  Bind(_evaluate_expression(Strip(m.group), bankv, store), LAMBDA e :
               IF e.err # "none"
               THEN [err |-> e.err, val |-> None, vars |-> e.vars, text |-> <<>>]
               ELSE Bind(RenderLoop(template, Tail(matches), m.last + 1,
                                    combined \o SubSeq(template, cursor, m.first - 1)
                                        \o _stringify(e.val),
                                    e.vars, store),
                         LAMBDA rest :
                           IF Tail(matches) = <<>> THEN [rest EXCEPT !.val = e.val] ELSE rest))

\* the native value only for a template that is the placeholder and nothing else
render_string_exact(template, bankv, store) ==
    Bind(FindMatches(template, 1), LAMBDA matches :
      IF matches = <<>> THEN [err |-> "none", val |-> VStr(template), vars |-> bankv]
      ELSE Bind(RenderLoop(template, matches, 1, <<>>, bankv, store), LAMBDA r :
        IF r.err # "none" THEN [err |-> r.err, val |-> None, vars |-> r.vars]
        ELSE [err |-> "none",
              val |-> IF /\ Len(matches) = 1
                         /\ matches[1].first = 1
                         /\ matches[1].last = Len(template)
                      THEN r.val ELSE VStr(r.text),
              vars |-> r.vars]))

\* a render_string that undoes its increments when a placeholder fails
render_string_rolls_back(template, bankv, store) ==
    Bind(FindMatches(template, 1), LAMBDA matches :
      IF matches = <<>> THEN [err |-> "none", val |-> VStr(template), vars |-> bankv]
      ELSE Bind(RenderLoop(template, matches, 1, <<>>, bankv, store), LAMBDA r :
        IF r.err # "none" THEN [err |-> r.err, val |-> None, vars |-> bankv]
        ELSE [err |-> "none",
              val |-> IF /\ Len(matches) = 1
                         /\ Strip(SubSeq(template, 1, matches[1].first - 1)) = <<>>
                         /\ Strip(SubSeq(template, matches[1].last + 1, Len(template))) = <<>>
                      THEN r.val ELSE VStr(r.text),
              vars |-> r.vars]))

\* render_string(template, vars, store): the value returned and the bank after
render_string(template, bankv, store) ==
    Bind(FindMatches(template, 1), LAMBDA matches :
      IF matches = <<>> THEN [err |-> "none", val |-> VStr(template), vars |-> bankv]
      ELSE Bind(RenderLoop(template, matches, 1, <<>>, bankv, store), LAMBDA r :
        IF r.err # "none" THEN [err |-> r.err, val |-> None, vars |-> r.vars]
        ELSE [err |-> "none",
              val |-> IF /\ Len(matches) = 1
                         /\ Strip(SubSeq(template, 1, matches[1].first - 1)) = <<>>
                         /\ Strip(SubSeq(template, matches[1].last + 1, Len(template))) = <<>>
                      THEN r.val ELSE VStr(r.text),
              vars |-> r.vars]))

(***************************************************************************)
(* Python comparison of JSON values                                        *)
(***************************************************************************)
\* the characters of the model's strings in code-point order
Ascii == <<" ", "'", "+", "-", ".", "0", "1", "2", "3", "4", "5", "6", "7", "8", "9",
           "<", "=", ">", "A", "B", "C", "D", "E", "F", "G", "H", "I", "J", "K", "L",
           "M", "N", "O", "P", "Q", "R", "S", "T", "U", "V", "W", "X", "Y", "Z", "[",
           "]", "_", "a", "b", "c", "d", "e", "f", "g", "h", "i", "j", "k", "l", "m",
           "n", "o", "p", "q", "r", "s", "t", "u", "v", "w", "x", "y", "z", "{", "}">>

Ord(c) == CHOOSE i \in 1..Len(Ascii) : Ascii[i] = c

\* a < b for strings
RECURSIVE StrLess(_, _)
StrLess(a, b) ==
    IF b = <<>> THEN FALSE
    ELSE IF a = <<>> THEN TRUE
    ELSE IF Head(a) = Head(b) THEN StrLess(Tail(a), Tail(b))
    ELSE Ord(Head(a)) < Ord(Head(b))

\* a == b
RECURSIVE PyEq(_, _)
PyEq(a, b) ==
    IF IsNumeric(a) /\ IsNumeric(b) THEN Tenths(a) = Tenths(b)
    ELSE IF a.t # b.t THEN FALSE
    ELSE IF a.t = "map"
    THEN DOMAIN a.v = DOMAIN b.v /\ \A k \in DOMAIN a.v : PyEq(a.v[k], b.v[k])
    ELSE IF a.t = "list"
    THEN Len(a.v) = Len(b.v) /\ \A i \in 1..Len(a.v) : PyEq(a.v[i], b.v[i])
    ELSE a = b

\* a < b is defined: numbers with numbers, strings with strings
Ordered(a, b) == (IsNumeric(a) /\ IsNumeric(b)) \/ (a.t = "str" /\ b.t = "str")

PyLess(a, b) == IF a.t = "str" THEN StrLess(a.v, b.v) ELSE Tenths(a) < Tenths(b)

ComparatorNames == {"==", "!=", ">", ">=", "<", "<="}

\* >= and <= taken as > and <
Compare_strict(op, a, b) ==
    IF op = "==" THEN [err |-> "none", val |-> PyEq(a, b)]
    ELSE IF op = "!=" THEN [err |-> "none", val |-> ~PyEq(a, b)]
    ELSE IF ~Ordered(a, b) THEN [err |-> "TypeError", val |-> FALSE]
    ELSE [err |-> "none",
          val |-> CASE op = ">" -> PyLess(b, a)
                    [] op = ">=" -> PyLess(b, a)
                    [] op = "<" -> PyLess(a, b)
                    [] op = "<=" -> PyLess(a, b)]

\* values of unordered types ordered by the names of their types
Compare_by_type_name(op, a, b) ==
    IF op = "==" THEN [err |-> "none", val |-> PyEq(a, b)]
    ELSE IF op = "!=" THEN [err |-> "none", val |-> ~PyEq(a, b)]
    ELSE IF ~Ordered(a, b)
    THEN LET rank(x) == CASE x.t = "bool" -> 0 [] x.t = "float" -> 1 [] x.t = "int" -> 2
                          [] x.t = "list" -> 3 [] x.t = "map" -> 4 [] x.t = "null" -> 5
                          [] x.t = "str" -> 6
         IN  [err |-> "none",
              val |-> CASE op = ">" -> rank(a) > rank(b)
                        [] op = ">=" -> rank(a) >= rank(b)
                        [] op = "<" -> rank(a) < rank(b)
                        [] op = "<=" -> rank(a) <= rank(b)]
    ELSE [err |-> "none",
          val |-> CASE op = ">" -> PyLess(b, a)
                    [] op = ">=" -> ~PyLess(a, b)
                    [] op = "<" -> PyLess(a, b)
                    [] op = "<=" -> ~PyLess(b, a)]

\* _COMPARATORS[op](a, b): TypeError for an ordering of unordered types
Compare(op, a, b) ==
    IF op = "==" THEN [err |-> "none", val |-> PyEq(a, b)]
    ELSE IF op = "!=" THEN [err |-> "none", val |-> ~PyEq(a, b)]
    ELSE IF ~Ordered(a, b) THEN [err |-> "TypeError", val |-> FALSE]
    ELSE [err |-> "none",
          val |-> CASE op = ">" -> PyLess(b, a)
                    [] op = ">=" -> ~PyLess(a, b)
                    [] op = "<" -> PyLess(a, b)
                    [] op = "<=" -> ~PyLess(b, a)]

(***************************************************************************)
(* templating.evaluate_python_expression.  eval() is modelled for the      *)
(* expression texts "<atom>" and "<atom> <op> <atom>", tokens separated by *)
(* blanks, an atom being True, False, None, a number, value, vars['k'],    *)
(* store['k'], or a call of pop: store.pop('k'), vars.pop('k') and         *)
(* vars['n'].pop('k').  The bindings are st = [snapshot, store, vars]:     *)
(* snapshot is the mapping bound to vars, store is the document itself and *)
(* vars is the live bank, whose nested mappings the snapshot shares.       *)
(* The conditions of the conditional nodes below only read the bindings,   *)
(* so evaluating a conditional node leaves the document as it is.          *)
(***************************************************************************)
RECURSIVE NonEmpty(_)
NonEmpty(ps) ==
    IF ps = <<>> THEN <<>>
    ELSE IF Head(ps) = <<>> THEN NonEmpty(Tail(ps))
    ELSE <<Head(ps)>> \o NonEmpty(Tail(ps))

\* str.split(): the tokens between runs of blanks
Tokens(s) == NonEmpty(Split(s, " "))

\* _coerce_numeric
_coerce_numeric(value) ==
    IF value.t # "str" THEN value
    ELSE IF Lower(value.v) \in {S_true, S_false, S_none} THEN value
    ELSE IF HasDot(value.v)
    THEN (IF IsFloatText(value.v) THEN ParseFloat(value.v) ELSE value)
    ELSE IF IsIntText(value.v) THEN ParseInt(value.v)
    ELSE value

S_value == <<"v", "a", "l", "u", "e">>

S_vars_open == <<"v", "a", "r", "s", "[", "'">>

S_store_open == <<"s", "t", "o", "r", "e", "[", "'">>

S_close == <<"'", "]">>

\* one atom of the expression over the bindings, evaluated in state st
EvalAtom(tok, value, st) ==
    LET n == Len(tok)
        pure(v) == [err |-> "none", val |-> v, st |-> st]
        failed == [err |-> "TemplateError", val |-> None, st |-> st]
        lookup(m, k) == IF Has(m, k) THEN pure(m.v[k]) ELSE failed
        q == Split(tok, "'")
    IN  IF tok = <<"T", "r", "u", "e">> THEN pure(VBool(TRUE))
        ELSE IF tok = <<"F", "a", "l", "s", "e">> THEN pure(VBool(FALSE))
        ELSE IF tok = <<"N", "o", "n", "e">> THEN pure(None)
        ELSE IF tok = S_value THEN pure(value)
        ELSE IF Len(q) = 3 /\ q[1] = <<"s", "t", "o", "r", "e", ".", "p", "o", "p",
            "(">> /\ q[3] = <<")">>
        THEN (IF ~Has(st.store, q[2]) THEN failed
              ELSE [err |-> "none", val |-> st.store.v[q[2]],
                    st |-> [st EXCEPT !.store = Del(st.store, q[2])]])
        ELSE IF Len(q) = 3 /\ q[1] = <<"v", "a", "r", "s", ".", "p", "o", "p",
            "(">> /\ q[3] = <<")">>
        THEN (IF ~Has(st.snapshot, q[2]) THEN failed
              ELSE [err |-> "none", val |-> st.snapshot.v[q[2]],
                    st |-> [st EXCEPT !.snapshot = Del(st.snapshot, q[2])]])
        ELSE IF Len(q) = 5 /\ q[1] = <<"v", "a", "r", "s", "[">> /\ q[3] = <<"]", ".", "p",
            "o", "p", "(">> /\ q[5] = <<")">>
        THEN (IF ~Has(st.snapshot, q[2]) THEN failed
              ELSE IF ~IsDict(st.snapshot.v[q[2]]) \/ ~Has(st.snapshot.v[q[2]], q[4])
              THEN failed
              ELSE [err |-> "none", val |-> st.snapshot.v[q[2]].v[q[4]],
                    st |-> [st EXCEPT
                              !.snapshot = Put(st.snapshot, q[2], Del(st.snapshot.v[q[2]], q[4])),
                              !.vars = Put(st.vars, q[2], Del(st.snapshot.v[q[2]], q[4]))]])
        ELSE IF StartsWith(tok, S_vars_open) /\ EndsWith(tok, S_close) /\ n > 8
        THEN lookup(st.snapshot, SubSeq(tok, 7, n - 2))
        ELSE IF StartsWith(tok, S_store_open) /\ EndsWith(tok, S_close) /\ n > 9
        THEN lookup(st.store, SubSeq(tok, 8, n - 2))
        ELSE IF IsFloatText(tok) THEN pure(ParseFloat(tok))
        ELSE IF IsIntText(tok) THEN pure(ParseInt(tok))
        ELSE failed

OpText(op) ==
    CASE op = "==" -> <<"=", "=">>
      [] op = "!=" -> <<"!", "=">>
      [] op = ">" -> <<">">>
      [] op = ">=" -> <<">", "=">>
      [] op = "<" -> <<"<">>
      [] op = "<=" -> <<"<", "=">>

\* eval(rendered, {"__builtins__": {}}, safe_locals): the value, and the
\* bindings as the evaluation leaves them; any exception is a TemplateError
\* to the caller, and what was popped before it stays popped
Eval(text, value, st) ==
    Bind(Tokens(text), LAMBDA toks :
      IF Len(toks) = 1 THEN EvalAtom(toks[1], value, st)
      ELSE IF Len(toks) = 3 /\ \E op \in ComparatorNames : OpText(op) = toks[2]
      THEN Bind(EvalAtom(toks[1], value, st), LAMBDA a :
             IF a.err # "none" THEN a
             ELSE Bind(EvalAtom(toks[3], value, a.st), LAMBDA b :
               IF b.err # "none" THEN b
               ELSE Bind(Compare(CHOOSE o \in ComparatorNames : OpText(o) = toks[2],
                                 a.val, b.val),
                         LAMBDA c :
                           IF c.err # "none"
                           THEN [err |-> "TemplateError", val |-> None, st |-> b.st]
                           ELSE [err |-> "none", val |-> VBool(c.val), st |-> b.st])))
      ELSE [err |-> "TemplateError", val |-> None, st |-> st])

\* str(rendered) of a value that is not a str
PyStr(x) == IF x.t = "str" THEN x.v ELSE PyRepr(x)

\* safe_locals: value coerced, vars a new mapping of the coerced bank
\* values, store the document
SafeLocals(bankv, store) ==
    [snapshot |-> VMap([k \in DOMAIN bankv.v |-> _coerce_numeric(bankv.v[k])]),
     store |-> store, vars |-> bankv]

\* a result that is not a boolean counted by its truth value
evaluate_python_expression_truthy(expression, value, bankv, store) ==
    Bind(render_string(expression, bankv, store), LAMBDA r :
      IF r.err # "none" THEN [err |-> r.err, val |-> FALSE, vars |-> r.vars, doc |-> store]
      ELSE Bind(Eval(PyStr(r.val), _coerce_numeric(value), SafeLocals(r.vars, store)),
                LAMBDA result :
                  IF result.err # "none"
                  THEN [err |-> "TemplateError", val |-> FALSE, vars |-> result.st.vars,
                        doc |-> result.st.store]
                  ELSE [err |-> "none", val |-> Truthy(result.val), vars |-> result.st.vars,
                        doc |-> result.st.store]))

\* evaluate_python_expression(expression, value=..., vars=..., store=...):
\* the boolean returned, and the bank and the document after
evaluate_python_expression(expression, value, bankv, store) ==
    Bind(render_string(expression, bankv, store), LAMBDA r :
      IF r.err # "none" THEN [err |-> r.err, val |-> FALSE, vars |-> r.vars, doc |-> store]
      ELSE Bind(Eval(PyStr(r.val), _coerce_numeric(value), SafeLocals(r.vars, store)),
                LAMBDA result :
                  IF result.err # "none" \/ result.val.t # "bool"
                  THEN [err |-> "TemplateError", val |-> FALSE, vars |-> result.st.vars,
                        doc |-> result.st.store]
                  ELSE [err |-> "none", val |-> result.val.v, vars |-> result.st.vars,
                        doc |-> result.st.store]))

(***************************************************************************)
(* conditional.py.  A branch is [value, has_value, condition, goto]; a     *)
(* condition is [kind |-> "none" | "python" | "compare", python, op,       *)
(* compare_to].                                                            *)
(***************************************************************************)
\* _resolve_operand(value, vars, context)
_resolve_operand(value, bankv, context) ==
    IF value.t # "str" THEN [err |-> "none", val |-> value]
    ELSE Bind(MappingParts(bankv, DottedParts(value.v)), LAMBDA inBank :
      IF inBank.err = "none" THEN [err |-> "none", val |-> inBank.val]
      ELSE Bind(resolve_path(context, value.v), LAMBDA inStore :
        IF inStore.err = "none" THEN [err |-> "none", val |-> inStore.val]
        ELSE IF inStore.err # "PathResolutionError" THEN [err |-> inStore.err, val |-> None]
        ELSE Bind(_coerce_literal(value.v), LAMBDA literal :
          IF literal.some THEN [err |-> "none", val |-> literal.val]
          ELSE [err |-> "none", val |-> value])))

\* render_string, then _resolve_operand of what it returns
RenderOperand(template, bankv, context) ==
    Bind(render_string(template, bankv, context), LAMBDA r :
      IF r.err # "none" THEN [err |-> r.err, val |-> None, vars |-> r.vars]
      ELSE Bind(_resolve_operand(r.val, r.vars, context),
                LAMBDA o : [err |-> o.err, val |-> o.val, vars |-> r.vars]))

\* a comparator that is not supported never matched
_branch_matches_skips_unsupported(branch, bankv, context) ==
    LET cond == branch.condition
    IN  IF cond.kind = "none" THEN [err |-> "none", val |-> TRUE, vars |-> bankv]
        ELSE IF cond.kind = "compare" /\ cond.op \notin ComparatorNames
        THEN [err |-> "none", val |-> FALSE, vars |-> bankv]
        ELSE IF cond.kind = "python" /\ branch.value = <<>>
        THEN evaluate_python_expression(cond.python, None, bankv, context)
        ELSE Bind(RenderOperand(branch.value, bankv, context), LAMBDA left :
          IF left.err # "none" THEN [err |-> left.err, val |-> FALSE, vars |-> left.vars]
          ELSE IF cond.kind = "python"
          THEN evaluate_python_expression(cond.python, left.val, left.vars, context)
          ELSE Bind(RenderOperand(cond.compare_to, left.vars, context), LAMBDA right :
            IF right.err # "none"
            THEN [err |-> right.err, val |-> FALSE, vars |-> right.vars]
            ELSE Bind(Compare(cond.op, left.val, right.val), LAMBDA cmp :
                   [err |-> "none", val |-> cmp.err = "none" /\ cmp.val,
                    vars |-> right.vars])))

\* _branch_matches(branch, workflow_vars=..., context=...)
_branch_matches(branch, bankv, context) ==
    LET cond == branch.condition
    IN  IF cond.kind = "none" THEN [err |-> "none", val |-> TRUE, vars |-> bankv]
        ELSE IF cond.kind = "compare" /\ cond.op \notin ComparatorNames
        THEN [err |-> "ConditionalEvaluationError", val |-> FALSE, vars |-> bankv]
        ELSE IF cond.kind = "python" /\ branch.value = <<>>
        THEN evaluate_python_expression(cond.python, None, bankv, context)
        ELSE Bind(RenderOperand(branch.value, bankv, context), LAMBDA left :
          IF left.err # "none" THEN [err |-> left.err, val |-> FALSE, vars |-> left.vars]
          ELSE IF cond.kind = "python"
          THEN evaluate_python_expression(cond.python, left.val, left.vars, context)
          ELSE Bind(RenderOperand(cond.compare_to, left.vars, context), LAMBDA right :
            IF right.err # "none"
            THEN [err |-> right.err, val |-> FALSE, vars |-> right.vars]
            ELSE Bind(Compare(cond.op, left.val, right.val), LAMBDA cmp :
                   [err |-> "none", val |-> cmp.err = "none" /\ cmp.val,
                    vars |-> right.vars])))

\* The loop of evaluate_conditional over the branches left to try
RECURSIVE TryBranches(_, _, _, _)
TryBranches(branches, else_goto, bankv, context) ==
    IF branches = <<>> THEN [err |-> "none", goto |-> else_goto, vars |-> bankv]
    ELSE Bind(_branch_matches(Head(branches), bankv, context), LAMBDA m :
           IF m.err # "none" THEN [err |-> m.err, goto |-> <<>>, vars |-> m.vars]
           ELSE IF m.val THEN [err |-> "none", goto |-> Head(branches).goto, vars |-> m.vars]
           ELSE TryBranches(Tail(branches), else_goto, m.vars, context))

RECURSIVE Reverse(_)
Reverse(s) == IF s = <<>> THEN <<>> ELSE Append(Reverse(Tail(s)), Head(s))

\* the branches tried from the last declared to the first
evaluate_conditional_backwards(node, bankv, context) ==
    TryBranches(Reverse(node.branches), node.else_goto, bankv, context)

\* evaluate_conditional(node, workflow_vars=..., context=...)
evaluate_conditional(node, bankv, context) ==
    TryBranches(node.branches, node.else_goto, bankv, context)

(***************************************************************************)
(* executor.py.  An execute node is [id, type, node, inputs, outputs,      *)
(* skip_if_output_present]; inputs and outputs are sequences of            *)
(* <<key, template>> in declared order (a dict keeps insertion order).     *)
(* The capability is the environment: its outcome is                       *)
(*   [kind |-> "return" | "raise" | "not_mapping", result, bump]           *)
(* where result is the mapping returned and bump, when not empty, names a  *)
(* bank counter the capability raises by one through context["vars"].     *)
(***************************************************************************)
S_key_suffix == <<"_", "k", "e", "y">>

S_vars == <<"v", "a", "r", "s">>

\* What _import_callable and the adapter make of a capability reference:
\* "class" and "function" resolve; the others are the ways it fails
Registry(ref) ==
    CASE ref = "stub_nodes.SimpleEvaluator" -> "class"
      [] ref = "stub_nodes.increment_iteration" -> "function"
      [] ref = "stub_nodes.missing_attr" -> "no_attribute"
      [] ref = "stub_nodes.SOME_VALUE" -> "not_callable"
      [] ref = "stub_nodes.NotANode" -> "not_executable"
      [] ref = "no_such_module.evaluate" -> "no_module"
      [] OTHER -> "no_module"

\* _import_callable and the isinstance / callable tests on what it returns
ResolveCapability(ref) ==
    CASE Registry(ref) \in {"class", "function"} -> "none"
      [] Registry(ref) = "no_module" -> "ModuleNotFoundError"
      [] OTHER -> "NodeExecutionError"

\* next((k for k in node.outputs.keys() if not k.endswith("_key")), None),
\* as the <<key, template>> pair; <<>> for None
RECURSIVE FirstNotKeyOutput(_)
FirstNotKeyOutput(outs) ==
    IF outs = <<>> THEN <<>>
    ELSE IF ~EndsWith(Head(outs)[1], S_key_suffix) THEN Head(outs)
    ELSE FirstNotKeyOutput(Tail(outs))

\* next((key for key in node.outputs if key in result), None), as the pair
RECURSIVE FirstResultOutput(_, _)
FirstResultOutput(outs, result) ==
    IF outs = <<>> THEN <<>>
    ELSE IF Has(result, Head(outs)[1]) THEN Head(outs)
    ELSE FirstResultOutput(Tail(outs), result)

\* key.split(".", 1)[1] of a key that starts with "vars."
AfterVarsDot(key) == SubSeq(key, 6, Len(key))

\* resolve_path(context, path) for a rendered value of any type: a value
\* that is not a str fails in _split_path
ResolveRendered(context, rendered) ==
    IF rendered.t = "str" THEN resolve_path(context, rendered.v)
    ELSE IF ~Truthy(rendered) THEN [err |-> "ValueError", val |-> None]
    ELSE [err |-> "AttributeError", val |-> None]

\* _sync_outputs_on_skip, over the outputs left
RECURSIVE SyncLoop(_, _, _)
SyncLoop(outs, bankv, context) ==
    IF outs = <<>> THEN [err |-> "none", vars |-> bankv]
    ELSE LET key == Head(outs)[1]
         IN  Bind(render_string(Head(outs)[2], bankv, context), LAMBDA r :
               IF r.err # "none" THEN [err |-> r.err, vars |-> r.vars]
               ELSE IF StartsWith(key, S_vars_dot)
               THEN SyncLoop(Tail(outs), Put(r.vars, AfterVarsDot(key), r.val), context)
               ELSE IF Has(r.vars, key) /\ r.val.t = "str"
               THEN Bind(resolve_path(context, r.val.v), LAMBDA found :
                      IF found.err \notin {"none", "PathResolutionError"}
                      THEN [err |-> found.err, vars |-> r.vars]
                      ELSE SyncLoop(Tail(outs),
                                    Put(r.vars, key,
                                        IF found.err = "none" THEN found.val ELSE r.val),
                                    context))
               ELSE SyncLoop(Tail(outs), r.vars, context))

\* a skip that re-renders nothing and leaves the bank as it was
_sync_outputs_on_skip_keeps_bank(node, bankv, context) == [err |-> "none", vars |-> bankv]

_sync_outputs_on_skip(node, bankv, context) == SyncLoop(node.outputs, bankv, context)

\* a skip check that never finds the output present
SkipCheck_never(node, bankv, context) ==
    [err |-> "none", skipped |-> FALSE, vars |-> bankv]

\* a skip check that takes any value at the path, truthy or not, as present
SkipCheck_on_presence(node, bankv, context) ==
    LET proceed == [err |-> "none", skipped |-> FALSE, vars |-> bankv]
    IN  Bind(FirstNotKeyOutput(node.outputs), LAMBDA primary :
          IF ~node.skip_if_output_present \/ primary = <<>> \/ primary[1] = <<>> THEN proceed
          ELSE Bind(render_string(primary[2], bankv, context), LAMBDA r :
            IF r.err # "none" THEN [err |-> r.err, skipped |-> FALSE, vars |-> bankv]
            ELSE Bind(ResolveRendered(context, r.val), LAMBDA existing :
              IF existing.err = "PathResolutionError" THEN proceed
              ELSE IF existing.err # "none"
              THEN [err |-> existing.err, skipped |-> FALSE, vars |-> bankv]
              ELSE Bind(_sync_outputs_on_skip(node, bankv, context), LAMBDA sync :
                IF sync.err = "PathResolutionError"
                THEN [err |-> "none", skipped |-> FALSE, vars |-> sync.vars]
                ELSE [err |-> sync.err, skipped |-> sync.err = "none",
                      vars |-> sync.vars]))))

\* a skip check that renders the primary path against the bank itself
SkipCheck_live(node, bankv, context) ==
    LET proceed == [err |-> "none", skipped |-> FALSE, vars |-> bankv]
    IN  Bind(FirstNotKeyOutput(node.outputs), LAMBDA primary :
          IF ~node.skip_if_output_present \/ primary = <<>> \/ primary[1] = <<>> THEN proceed
          ELSE Bind(render_string(primary[2], bankv, context), LAMBDA r :
            IF r.err # "none" THEN [err |-> r.err, skipped |-> FALSE, vars |-> r.vars]
            ELSE Bind(ResolveRendered(context, r.val), LAMBDA existing :
              IF existing.err = "PathResolutionError"
              THEN [err |-> "none", skipped |-> FALSE, vars |-> r.vars]
              ELSE IF existing.err # "none"
              THEN [err |-> existing.err, skipped |-> FALSE, vars |-> r.vars]
              ELSE IF ~Truthy(existing.val)
              THEN [err |-> "none", skipped |-> FALSE, vars |-> r.vars]
              ELSE Bind(_sync_outputs_on_skip(node, r.vars, context), LAMBDA sync :
                IF sync.err = "PathResolutionError"
                THEN [err |-> "none", skipped |-> FALSE, vars |-> sync.vars]
                ELSE [err |-> sync.err, skipped |-> sync.err = "none",
                      vars |-> sync.vars]))))

\* The skip check of execute_node: skipped, an error, or on to the capability
\* (with the bank as a sync that ended in PathResolutionError left it)
SkipCheck(node, bankv, context) ==
    LET proceed == [err |-> "none", skipped |-> FALSE, vars |-> bankv]
    IN  Bind(FirstNotKeyOutput(node.outputs), LAMBDA primary :
          IF ~node.skip_if_output_present \/ primary = <<>> \/ primary[1] = <<>> THEN proceed
          ELSE Bind(render_string(primary[2], bankv, context), LAMBDA r :
            IF r.err # "none" THEN [err |-> r.err, skipped |-> FALSE, vars |-> bankv]
            ELSE Bind(ResolveRendered(context, r.val), LAMBDA existing :
              IF existing.err = "PathResolutionError" THEN proceed
              ELSE IF existing.err # "none"
              THEN [err |-> existing.err, skipped |-> FALSE, vars |-> bankv]
              ELSE IF ~Truthy(existing.val) THEN proceed
              ELSE Bind(_sync_outputs_on_skip(node, bankv, context), LAMBDA sync :
                IF sync.err = "PathResolutionError"
                THEN [err |-> "none", skipped |-> FALSE, vars |-> sync.vars]
                ELSE [err |-> sync.err, skipped |-> sync.err = "none",
                      vars |-> sync.vars]))))

\* _resolve_input_value
_resolve_input_value(value, context) ==
    IF value.t # "str" THEN [err |-> "none", val |-> value]
    ELSE Bind(resolve_path(context, value.v), LAMBDA r :
           IF r.err = "none" THEN r
           ELSE IF r.err = "PathResolutionError" THEN [err |-> "none", val |-> value]
           ELSE [err |-> r.err, val |-> None])

\* the loop that renders node.inputs: the named inputs and the bank after
RECURSIVE InputsLoop(_, _, _, _)
InputsLoop(ins, rendered_inputs, bankv, context) ==
    IF ins = <<>> THEN [err |-> "none", inputs |-> rendered_inputs, vars |-> bankv]
    ELSE Bind(render_string(Head(ins)[2], bankv, context), LAMBDA r :
           IF r.err # "none" THEN [err |-> r.err, inputs |-> rendered_inputs, vars |-> r.vars]
           ELSE Bind(_resolve_input_value(r.val, context), LAMBDA x :
             IF x.err # "none"
             THEN [err |-> x.err, inputs |-> rendered_inputs, vars |-> r.vars]
             ELSE InputsLoop(Tail(ins), Put(rendered_inputs, Head(ins)[1], x.val),
                             r.vars, context)))

\* provenance: the rendered templates of the outputs whose key ends in "_key"
RECURSIVE ProvenanceLoop(_, _, _, _)
ProvenanceLoop(outs, provenance, bankv, context) ==
    IF outs = <<>> THEN [err |-> "none", val |-> provenance, vars |-> bankv]
    ELSE IF ~EndsWith(Head(outs)[1], S_key_suffix)
    THEN ProvenanceLoop(Tail(outs), provenance, bankv, context)
    ELSE Bind(render_string(Head(outs)[2], bankv, context), LAMBDA r :
           IF r.err # "none" THEN [err |-> r.err, val |-> provenance, vars |-> r.vars]
           ELSE ProvenanceLoop(Tail(outs), Put(provenance, Head(outs)[1], r.val),
                               r.vars, context))

IsPrefix(p, q) == Len(p) <= Len(q) /\ SubSeq(q, 1, Len(p)) = p

\* data with x stored at the place the parts lead to
SetAt(data, parts, x) == SetIn(data, SubSeq(parts, 1, Len(parts) - 1), parts[Len(parts)], x)

\* stored_obj[key] = x: stored_obj is the object written at the primary path,
\* and the document sees the assignment while that object is still the one
\* stored there (st.attached)
StoreInPrimary(st, key, x) ==
    [st EXCEPT !.obj = Put(st.obj, key, x),
               !.doc = IF st.attached THEN SetAt(st.doc, st.at, Put(st.obj, key, x))
                       ELSE st.doc]

\* if key in workflow_vars: workflow_vars[key] = x
Mirrored(st, key, x) ==
    IF Has(st.vars, key) THEN [st EXCEPT !.vars = Put(st.vars, key, x)] ELSE st

\* the loop of execute_node over node.outputs after the primary output is
\* written; st is [err, vars, doc, obj, attached, at, is_mapping]
RECURSIVE OutputsLoop(_, _, _, _)
OutputsLoop(outs, result, primary_key, st) ==
    IF outs = <<>> \/ st.err # "none" THEN st
    ELSE LET key == Head(outs)[1]
             still == st.attached /\ ~IsPrefix(DottedParts(key), st.at)
         IN  IF ~StartsWith(key, S_vars_dot)
                /\ (key = primary_key \/ EndsWith(key, S_key_suffix))
             THEN OutputsLoop(Tail(outs), result, primary_key, st)
             ELSE IF ~StartsWith(key, S_vars_dot) /\ Has(result, key)
             THEN OutputsLoop(Tail(outs), result, primary_key,
                      IF st.is_mapping
                      THEN Mirrored(StoreInPrimary(st, key, result.v[key]), key, result.v[key])
                      ELSE st)
             ELSE Bind(render_string(Head(outs)[2], st.vars, st.doc), LAMBDA r :
               IF r.err # "none" THEN [st EXCEPT !.err = r.err, !.vars = r.vars]
               ELSE IF ~StartsWith(key, S_vars_dot)
               THEN OutputsLoop(Tail(outs), result, primary_key,
                        Mirrored(IF st.is_mapping
                                 THEN StoreInPrimary([st EXCEPT !.vars = r.vars], key, r.val)
                                 ELSE [st EXCEPT !.vars = r.vars],
                                 key, r.val))
               ELSE Bind(write_path(st.doc, key, r.val), LAMBDA w :
                 IF w.err # "none"
                 THEN [st EXCEPT !.err = w.err, !.vars = r.vars, !.doc = w.doc]
                 ELSE OutputsLoop(Tail(outs), result, primary_key,
                          [st EXCEPT !.vars = Put(r.vars, AfterVarsDot(key), r.val),
                                     !.doc = w.doc,
                                     !.attached = still,
                                     !.obj = IF still THEN ResolveParts(w.doc, st.at).val
                                             ELSE st.obj])))

\* an execute_node that ends without the refresh from stored_obj
RefreshFromPrimary_skipped(bankv, obj) == bankv

\* for var_name in list(workflow_vars.keys()): refresh from stored_obj
RefreshFromPrimary(bankv, obj) ==
    VMap([k \in DOMAIN bankv.v |-> IF Has(obj, k) THEN obj.v[k] ELSE bankv.v[k]])

\* the primary value stamped with metadata wherever it goes
WritePrimary_always_metadata(context, path, value, now, provenance, bankv) ==
    Bind(write_with_metadata(context, path, value, now, provenance), LAMBDA w :
      [err |-> w.err, doc |-> w.doc,
       vars |-> IF w.err = "none" /\ StartsWith(path, S_vars_dot)
                THEN Put(bankv, AfterVarsDot(path), value) ELSE bankv])

\* The primary value written at its rendered path: into the bank as well
\* for a "vars." path, with metadata otherwise; the document and the bank after
WritePrimary(context, path, value, now, provenance, bankv) ==
    IF StartsWith(path, S_vars_dot)
    THEN Bind(write_path(context, path, value), LAMBDA w :
           [err |-> w.err, doc |-> w.doc,
            vars |-> IF w.err = "none" THEN Put(bankv, AfterVarsDot(path), value) ELSE bankv])
    ELSE Bind(write_with_metadata(context, path, value, now, provenance), LAMBDA w :
           [err |-> w.err, doc |-> w.doc, vars |-> bankv])

\* Output reconciliation: execute_node from the isinstance(result, Mapping)
\* test to its return, for the capability's outcome, stamped now
Reconcile(node, bankv, context, outcome, now) ==
    LET result == outcome.result
        fail(e, b, d) == [err |-> e, vars |-> b, doc |-> d]
    IN  IF outcome.kind = "not_mapping" THEN fail("NodeExecutionError", bankv, context)
        ELSE Bind(FirstResultOutput(node.outputs, result), LAMBDA primary :
          IF primary = <<>> THEN fail("NodeExecutionError", bankv, context)
          ELSE Bind(render_string(primary[2], bankv, context), LAMBDA path :
            IF path.err # "none" THEN fail(path.err, path.vars, context)
            ELSE IF path.val.t # "str" THEN fail("NodeExecutionError", path.vars, context)
            ELSE Bind(ProvenanceLoop(node.outputs, EmptyMap, path.vars, context), LAMBDA prov :
              IF prov.err # "none" THEN fail(prov.err, prov.vars, context)
              ELSE Bind(WritePrimary(context, path.val.v, result.v[primary[1]], now,
                                     prov.val, prov.vars),
                        LAMBDA w :
                IF w.err # "none" THEN fail(w.err, w.vars, w.doc)
                ELSE Bind(resolve_path(w.doc, path.val.v), LAMBDA stored :
                  IF stored.err # "none" THEN fail(stored.err, w.vars, w.doc)
                  ELSE Bind(OutputsLoop(node.outputs, result, primary[1],
                                [err |-> "none", vars |-> w.vars, doc |-> w.doc,
                                 obj |-> stored.val, attached |-> TRUE,
                                 at |-> DottedParts(path.val.v),
                                 is_mapping |-> IsDict(stored.val)]),
                            LAMBDA st :
                    IF st.err # "none" THEN fail(st.err, st.vars, st.doc)
                    ELSE fail("none",
                              IF st.is_mapping THEN RefreshFromPrimary(st.vars, st.obj)
                              ELSE st.vars,
                              st.doc)))))))

\* The capability's effect on the bank it finds under context["vars"]
Invoke(bankv, outcome) ==
    IF outcome.bump = <<>> THEN bankv
    ELSE Put(bankv, outcome.bump,
             IF Has(bankv, outcome.bump) /\ IsNumeric(bankv.v[outcome.bump])
             THEN PlusOne(bankv.v[outcome.bump]) ELSE VInt(1))

\* context["vars"] = workflow_vars: the capability finds the bank in the document
BindVars(context, bankv) == Put(context, S_vars, bankv)

\* the binding outlived the invocation
PopVars_leaks(context) == context

\* finally: context.pop("vars", None)
PopVars(context) == Del(context, S_vars)

\* execute_node(node, workflow_vars=..., context=...) with the capability's
\* outcome and the clock's reading: the status returned or the error raised,
\* the bank and the document after, whether the capability was invoked, the
\* inputs it was given and the document as it found it (seen)
execute_node(node, bankv, context, outcome, now) ==
    LET quiet(e, status, b) == [err |-> e, status |-> status, vars |-> b, doc |-> context,
                                invoked |-> FALSE, inputs |-> EmptyMap, seen |-> None]
    IN  Bind(SkipCheck(node, bankv, context), LAMBDA skip :
          IF skip.err # "none" THEN quiet(skip.err, "raised", skip.vars)
          ELSE IF skip.skipped THEN quiet("none", "skipped", skip.vars)
          ELSE IF ResolveCapability(node.node) # "none"
          THEN quiet(ResolveCapability(node.node), "raised", skip.vars)
          ELSE Bind(InputsLoop(node.inputs, EmptyMap, skip.vars, context), LAMBDA ins :
            IF ins.err # "none" THEN quiet(ins.err, "raised", ins.vars)
            ELSE IF outcome.kind = "raise"
            THEN [err |-> "CapabilityError", status |-> "raised",
                  vars |-> Invoke(ins.vars, outcome),
                  doc |-> PopVars(BindVars(context, Invoke(ins.vars, outcome))),
                  invoked |-> TRUE, inputs |-> ins.inputs,
                  seen |-> BindVars(context, ins.vars)]
            ELSE Bind(Reconcile(node, Invoke(ins.vars, outcome),
                                PopVars(BindVars(context, Invoke(ins.vars, outcome))),
                                outcome, now),
                      LAMBDA rec :
                        [err |-> rec.err,
                         status |-> IF rec.err = "none" THEN "completed" ELSE "raised",
                         vars |-> rec.vars, doc |-> rec.doc,
                         invoked |-> TRUE, inputs |-> ins.inputs,
                         seen |-> BindVars(context, ins.vars)])))

(***************************************************************************)
(* engine.py                                                               *)
(***************************************************************************)
S_optimization_flow ==
    <<"o", "p", "t", "i", "m", "i", "z", "a", "t", "i", "o", "n", "_", "f",
      "l", "o", "w">>

S_subjective_evaluation_ ==
    <<"s", "u", "b", "j", "e", "c", "t", "i", "v", "e", "_", "e", "v", "a",
      "l", "u", "a", "t", "i", "o", "n", "_">>

S_last_subjective_iteration ==
    <<"l", "a", "s", "t", "_", "s", "u", "b", "j", "e", "c", "t", "i", "v",
      "e", "_", "i", "t", "e", "r", "a", "t", "i", "o", "n">>

S_subjective_iteration_count ==
    <<"s", "u", "b", "j", "e", "c", "t", "i", "v", "e", "_", "i", "t", "e",
      "r", "a", "t", "i", "o", "n", "_", "c", "o", "u", "n", "t">>

S_improved_manifest_B ==
    <<"i", "m", "p", "r", "o", "v", "e", "d", "_", "m", "a", "n", "i", "f",
      "e", "s", "t", "_", "B">>

S_improved_code_B ==
    <<"i", "m", "p", "r", "o", "v", "e", "d", "_", "c", "o", "d", "e", "_",
      "B">>

S_dot_code ==
    <<".", "c", "o", "d", "e">>

S_latest_manifest_key ==
    <<"l", "a", "t", "e", "s", "t", "_", "m", "a", "n", "i", "f", "e", "s",
      "t", "_", "k", "e", "y">>

S_latest_code_key ==
    <<"l", "a", "t", "e", "s", "t", "_", "c", "o", "d", "e", "_", "k", "e",
      "y">>

S_code_iteration_count ==
    <<"c", "o", "d", "e", "_", "i", "t", "e", "r", "a", "t", "i", "o", "n",
      "_", "c", "o", "u", "n", "t">>

S_original_manifest ==
    <<"o", "r", "i", "g", "i", "n", "a", "l", "_", "m", "a", "n", "i", "f",
      "e", "s", "t">>

S_original_code ==
    <<"o", "r", "i", "g", "i", "n", "a", "l", "_", "c", "o", "d", "e">>

S_END ==
    <<"E", "N", "D">>

\* key.rsplit(sep, 1)[-1]: the text after the last sep, the whole key without one
RECURSIVE AfterLast(_, _)
AfterLast(key, sep) ==
    IF \E i \in 1..Len(key) : key[i] = sep
    THEN AfterLast(Tail(key), sep)
    ELSE key

\* [int(key.rsplit(sep, 1)[-1]) for key in optimization_flow
\*  if key.startswith(prefix) and key.rsplit(sep, 1)[-1].isdigit()]
Indices(optimization_flow, prefix, sep) ==
    {StrToNat(AfterLast(key, sep)) :
        key \in {k \in DOMAIN optimization_flow.v :
                    StartsWith(k, prefix) /\ IsDigitStr(AfterLast(k, sep))}}

Max(S) == CHOOSE n \in S : \A m \in S : m <= n

\* workflow_vars.get(name, 0) <= last: TypeError unless the value is a number
CounterAtMost(bankv, name, last) ==
    LET cur == IF Has(bankv, name) THEN bankv.v[name] ELSE VInt(0)
    IN  IF IsNumeric(cur) THEN [err |-> "none", val |-> Tenths(cur) <= 10 * last]
        ELSE [err |-> "TypeError", val |-> FALSE]

\* if workflow_vars.get(name, 0) <= last: workflow_vars[name] = last + 1
RaiseCounter(bankv, name, last) ==
    LET c == CounterAtMost(bankv, name, last)
    IN  [err |-> c.err, vars |-> IF c.val THEN Put(bankv, name, VInt(last + 1)) ELSE bankv]

\* f"optimization_flow.{prefix}{index}.code"
RecordKey(prefix, index) ==
    VStr(S_optimization_flow \o <<".">> \o prefix \o IntToStr(index) \o S_dot_code)

GetOr(bankv, name, default) == IF Has(bankv, name) THEN bankv.v[name] ELSE default

\* _rehydrate_counters(context, workflow_vars)
_rehydrate_counters(context, bankv) ==
    LET optimization_flow == context.v[S_optimization_flow]
        subjective_indices == Indices(optimization_flow, S_subjective_evaluation_, "_")
        improved_manifest_indices == Indices(optimization_flow, S_improved_manifest_B, "B")
        improved_code_indices == Indices(optimization_flow, S_improved_code_B, "B")
        last_subjective == Max(subjective_indices)
        sub == IF subjective_indices # {}
               THEN RaiseCounter(Put(bankv, S_last_subjective_iteration, VInt(last_subjective)),
                                 S_subjective_iteration_count, last_subjective)
               ELSE [err |-> "none", vars |-> SetDefault(bankv, S_last_subjective_iteration, VInt(0))]
        b == sub.vars
        last_manifest == Max(improved_manifest_indices)
        manifest_key == RecordKey(S_improved_manifest_B, last_manifest)
        last_code == Max(improved_code_indices)
        code_key == RecordKey(S_improved_code_B, last_code)
        m1 == SetDefault(b, S_latest_manifest_key,
                         GetOr(b, S_latest_code_key, VStr(S_original_manifest)))
    IN  IF ~Has(context, S_optimization_flow) \/ ~IsDict(optimization_flow)
        THEN [err |-> "none", vars |-> bankv]
        ELSE IF sub.err # "none" THEN sub
        ELSE IF improved_manifest_indices # {}
        THEN RaiseCounter(Put(Put(b, S_latest_manifest_key, manifest_key),
                              S_latest_code_key, manifest_key),
                          S_code_iteration_count, last_manifest)
        ELSE IF improved_code_indices # {}
        THEN RaiseCounter(SetDefault(Put(b, S_latest_code_key, code_key),
                                     S_latest_manifest_key, code_key),
                          S_code_iteration_count, last_code)
        ELSE [err |-> "none",
              vars |-> SetDefault(m1, S_latest_code_key,
                                  GetOr(m1, S_latest_manifest_key, VStr(S_original_code)))]

\* the defaults of the config laid over the document's "vars"
InitialBank_defaults_win(cfg, context) ==
    IF Has(context, S_vars) /\ IsDict(context.v[S_vars])
    THEN Update(context.v[S_vars], cfg.vars)
    ELSE cfg.vars

\* workflow_vars = config.vars: the bank is the mapping the configuration
\* holds, and what is done to the bank is done to the configuration
ConfigAfter_aliased(cfg, bankv) == [cfg EXCEPT !.vars = bankv]

\* workflow_vars = deepcopy(config.vars): the bank shares nothing with the
\* configuration, which is as it was whatever the bank has become
ConfigAfter(cfg, bankv) == cfg

\* workflow_vars = deepcopy(config.vars), overlaid with the document's "vars"
\* when that is a mapping
InitialBank(cfg, context) ==
    IF Has(context, S_vars) /\ IsDict(context.v[S_vars])
    THEN Update(cfg.vars, context.v[S_vars])
    ELSE cfg.vars

\* every id of the flow led to the first node
NodeIndex_first(flow, id) == IF \E i \in 1..Len(flow) : flow[i].id = id THEN 1 ELSE 0

\* an id that is not in the flow led to the first node
NodeIndex_unknown_first(flow, id) ==
    IF \E i \in 1..Len(flow) : flow[i].id = id
    THEN CHOOSE i \in 1..Len(flow) : flow[i].id = id
    ELSE 1

\* node_index = {node.id: idx for idx, node in enumerate(config.flow)}: the
\* index (from 1 here) of the last node with the id, 0 for an id not in the flow
NodeIndex(flow, id) ==
    IF \E i \in 1..Len(flow) : flow[i].id = id
    THEN CHOOSE i \in 1..Len(flow) :
            flow[i].id = id /\ \A j \in 1..Len(flow) : flow[j].id = id => j <= i
    ELSE 0

\* the bank merged under the values the document's "vars" already holds
MergeVars_keeps_stored(context, bankv) ==
    IF Has(context, S_vars) /\ ~IsDict(context.v[S_vars])
    THEN [err |-> "AttributeError", doc |-> context]
    ELSE [err |-> "none",
          doc |-> Put(context, S_vars,
                      Update(bankv, IF Has(context, S_vars) THEN context.v[S_vars]
                                    ELSE EmptyMap))]

\* context.setdefault("vars", {}); context["vars"].update(workflow_vars)
MergeVars(context, bankv) ==
    LET c == SetDefault(context, S_vars, EmptyMap)
    IN  IF IsDict(c.v[S_vars])
        THEN [err |-> "none", doc |-> Put(c, S_vars, Update(c.v[S_vars], bankv))]
        ELSE [err |-> "AttributeError", doc |-> c]

(***************************************************************************)
(* The store on its own: write_path and write_with_metadata applied to a   *)
(* document, each call logged with its arguments and outcome.              *)
(***************************************************************************)
MaxOps == 2

P_a == <<"a">>

P_a_b == <<"a", ".", "b">>

P_a_b_spaced == <<" ", "a", " ", ".", "b", " ">>

P_dot == <<".">>

P_a_b_c == <<"a", ".", "b", ".", "c">>

StorePaths == {P_a, P_a_b, P_a_b_spaced, P_a_b_c, P_dot}

K_x == <<"x">>

S_T0 == <<"T", "0">>

S_instruction_key == <<"i", "n", "s", "t", "r", "u", "c", "t", "i", "o", "n", "_", "k", "e", "y">>

S_instruction == <<"i", "n", "s", "t", "r", "u", "c", "t", "i", "o", "n">>

StoreValues == {VInt(1), None, VMap(K_x :> VInt(1)), VMap(S_created_at :> VStr(S_T0))}

StoreProvenance == {EmptyMap, VMap(S_instruction_key :> VStr(S_instruction))}

StoreDocs == {EmptyMap, VMap(<<"a">> :> VMap(<<"b">> :> VInt(7)))}

\* datetime.now(): the n-th call of a run is stamped "T<n>"
Stamp(n) == VStr(<<"T">> \o IntToStr(n))

Idle ==
    /\ bank = EmptyMap
    /\ config = <<>>
    /\ current = 0
    /\ phase = "idle"
    /\ error = "none"
    /\ trace = <<>>
    /\ calls = 0

InitStore ==
    /\ doc \in StoreDocs
    /\ log = <<>>
    /\ Idle

StoreWritePath(path, value) ==
    /\ Len(log) < MaxOps
    /\ LET r == write_path(doc, path, value)
       IN  /\ doc' = r.doc
           /\ log' = Append(log, [op |-> "write_path", path |-> path, value |-> value,
                                  created_at |-> None, provenance |-> EmptyMap,
                                  err |-> r.err, before |-> doc])
    /\ UNCHANGED <<bank, config, current, phase, error, trace, calls>>

StoreWriteWithMetadata(path, value, provenance) ==
    /\ Len(log) < MaxOps
    /\ LET now == Stamp(Len(log) + 1)
           r == write_with_metadata(doc, path, value, now, provenance)
       IN  /\ doc' = r.doc
           /\ log' = Append(log, [op |-> "write_with_metadata", path |-> path,
                                  value |-> value, created_at |-> now,
                                  provenance |-> provenance,
                                  err |-> r.err, before |-> doc])
    /\ UNCHANGED <<bank, config, current, phase, error, trace, calls>>

NextStore ==
    \/ \E p \in StorePaths, v \in StoreValues : StoreWritePath(p, v)
    \/ \E p \in StorePaths, v \in StoreValues, pr \in StoreProvenance :
          StoreWriteWithMetadata(p, v, pr)

SpecStore == InitStore /\ [][NextStore]_vars

LastOp == log[Len(log)]

\* C1: after a write_path(doc, p, v) that returned, resolve_path(doc, p)
\* returns a value equal to v.
C1_RoundTrip ==
    (log # <<>> /\ LastOp.op = "write_path" /\ LastOp.err = "none")
        => resolve_path(doc, LastOp.path) = [err |-> "none", val |-> LastOp.value]

\* a write_path through created and existing parents has returned
C1_Witness ==
    /\ Len(log) = 2
    /\ \A i \in 1..2 : log[i].op = "write_path" /\ log[i].err = "none"
    /\ log[1].path = P_a_b /\ log[2].path = P_a_b_spaced
    /\ log[1].value # log[2].value

\* The created_at that write_with_metadata keeps for the value at path: a key
\* of the value when it is a mapping, of the sibling "<key>_metadata" otherwise
CreatedAtOf(data, path) ==
    LET c == ensure_container(data, path)
        target == resolve_path(data, path).val
        holder == IF IsDict(target) THEN target
                  ELSE ResolveParts(data, Append(c.parents, c.key \o S_metadata)).val
    IN  IF IsDict(holder) /\ Has(holder, S_created_at) THEN holder.v[S_created_at] ELSE None

\* C2: two successive write_with_metadata calls to the same path (stamped t1,
\* then t2) leave the value stored there carrying the first call's
\* created_at; the second call never replaces it.
C2_FirstCreatedAtKept ==
    (/\ Len(log) = 2
     /\ \A i \in 1..2 : log[i].op = "write_with_metadata" /\ log[i].err = "none"
     /\ log[1].path = log[2].path)
        => CreatedAtOf(doc, log[2].path) = log[1].created_at

(***************************************************************************)
(* One execute node run repeatedly against a document: each run takes the  *)
(* capability's outcome from the environment and is logged with the bank   *)
(* and the document it started from.                                       *)
(***************************************************************************)
MaxRuns == 2

S_result == <<"r", "e", "s", "u", "l", "t">>

S_score == <<"s", "c", "o", "r", "e">>

ExecOutputs ==
    {<< <<S_result, <<"o", "p", "t", "i", "m", "i", "z", "a", "t", "i", "o", "n", "_", "f",
        "l", "o", "w", ".", "e", "v", "a", "l", "u", "a", "t", "i", "o", "n">>>> >>,
     << <<S_result, <<"o", "p", "t", "i", "m", "i", "z", "a", "t", "i", "o", "n", "_", "f",
         "l", "o", "w", ".", "e", "v", "a", "l", "u", "a", "t", "i", "o", "n">>>>, <<S_score,
         <<"{", "{", "m", "i", "s", "s", "i", "n", "g", "}", "}">>>> >>,
     << <<<<"e", "v", "a", "l", "u", "a", "t", "i", "o", "n", "_", "k", "e", "y">>, <<"{", "{",
         "l", "a", "t", "e", "s", "t", "}", "}">>>>, <<S_result, <<"o", "p", "t", "i", "m",
         "i", "z", "a", "t", "i", "o", "n", "_", "f", "l", "o", "w", ".", "{", "{", "l", "a",
         "t", "e", "s", "t", "}", "}">>>>,
        <<<<"v", "a", "r", "s", ".", "l", "a", "t", "e", "s", "t">>, <<"n", "e", "x", "t">>>> >>,
     << <<S_result, <<"o", "p", "t", "i", "m", "i", "z", "a", "t", "i", "o", "n", "_", "f",
         "l", "o", "w", ".", "e", "v", "a", "l", "u", "a", "t", "i", "o", "n">>>>,
        <<<<"v", "a", "r", "s", ".", "p", "o", "i", "n", "t", "e", "r">>, <<"o", "p", "t", "i",
            "m", "i", "z", "a", "t", "i", "o", "n", "_", "f", "l", "o", "w", ".", "e", "v",
            "a", "l", "u", "a", "t", "i", "o", "n">>>> >>}

ExecNodes ==
    {[id |-> <<"e", "v", "a", "l", "u", "a", "t", "e">>, type |-> "execute",
        node |-> "stub_nodes.SimpleEvaluator",
      inputs |-> <<>>, outputs |-> o, skip_if_output_present |-> s] :
        o \in ExecOutputs, s \in BOOLEAN}

ExecResults ==
    {VMap((S_result :> VMap(K_x :> VInt(1))) @@ (S_score :> VInt(9))),
     VMap(S_result :> VInt(0)),
     VMap(S_result :> VStr(<<"o", "k">>)),
     VMap(S_result :> VMap(<<"p", "o", "i", "n", "t", "e", "r">> :> VInt(1))),
     VMap(S_score :> VInt(9))}

\* What the environment makes of an invocation: the capability returns a
\* mapping, returns something else, or raises
ExecOutcomes ==
    {[kind |-> "return", result |-> r, bump |-> <<>>] : r \in ExecResults}
        \cup {[kind |-> "not_mapping", result |-> None, bump |-> <<>>],
              [kind |-> "raise", result |-> None, bump |-> <<>>]}

ExecDocs ==
    {EmptyMap,
     VMap(S_optimization_flow :> VMap(<<"e", "v", "a", "l", "u", "a", "t", "i", "o",
         "n">> :> VMap(S_created_at :> VStr(S_T0)))),
     VMap(S_optimization_flow :> VMap(<<"e", "v", "a", "l", "u", "a", "t", "i", "o",
         "n">> :> VInt(0)))}

ExecBanks ==
    {VMap(<<"l", "a", "t", "e", "s", "t">> :> VStr(<<"e", "v", "a", "l", "u", "a", "t", "i",
        "o", "n">>)),
     VMap((<<"l", "a", "t", "e", "s", "t">> :> VStr(<<"e", "v", "a", "l", "u", "a", "t", "i",
         "o", "n">>)) @@ (S_score :> VInt(1)))}

InitExec ==
    /\ doc \in ExecDocs
    /\ bank \in ExecBanks
    /\ config \in {<<n>> : n \in ExecNodes}
    /\ current = 0
    /\ phase = "idle"
    /\ error = "none"
    /\ trace = <<>>
    /\ calls = 0
    /\ log = <<>>

RunNode(outcome) ==
    /\ Len(log) < MaxRuns
    /\ LET r == execute_node(config[1], bank, doc, outcome, Stamp(Len(log) + 1))
       IN  /\ doc' = r.doc
           /\ bank' = r.vars
           /\ calls' = IF r.invoked THEN calls + 1 ELSE calls
           /\ log' = Append(log, [op |-> "execute_node", err |-> r.err, status |-> r.status,
                                  invoked |-> r.invoked, before |-> doc,
                                  bank_before |-> bank, seen |-> r.seen,
                                  inputs |-> r.inputs, outcome |-> outcome])
    /\ UNCHANGED <<config, current, phase, error, trace>>

NextExec == \E outcome \in ExecOutcomes : RunNode(outcome)

SpecExec == InitExec /\ [][NextExec]_vars

\* The primary output of the skip check (the first output key not ending in
\* "_key") as the document has it: whether its rendered path resolves, and
\* the value there
PrimaryOutput(node, bankv, context) ==
    LET primary == FirstNotKeyOutput(node.outputs)
        r == render_string(primary[2], bankv, context)
        found == resolve_path(context, r.val.v)
    IN  IF primary # <<>> /\ r.err = "none" /\ r.val.t = "str" /\ found.err = "none"
        THEN [exists |-> TRUE, path |-> r.val.v, val |-> found.val]
        ELSE [exists |-> FALSE, path |-> <<>>, val |-> None]

\* the run before the last logged one left the node's primary output in place
SecondRun ==
    /\ Len(log) >= 2
    /\ config[1].skip_if_output_present
    /\ PrimaryOutput(config[1], LastOp.bank_before, LastOp.before).exists

PrimaryCreatedAtKept ==
    LET path == PrimaryOutput(config[1], LastOp.bank_before, LastOp.before).path
    IN  CreatedAtOf(doc, path) = CreatedAtOf(LastOp.before, path)

\* C3 (as stated): a second run of an execute node with skip_if_output_present
\* against a document whose primary output already exists returns "skipped",
\* does not invoke the capability and leaves the primary output's created_at
\* unchanged.
C3_SkipWhenPresent ==
    SecondRun => /\ LastOp.status = "skipped"
                 /\ ~LastOp.invoked
                 /\ PrimaryCreatedAtKept

\* C3 (amended): when the primary output exists with a truthy value, the
\* second run does not invoke the capability and leaves the primary output's
\* created_at unchanged, and it returns "skipped" unless re-rendering the
\* node's output templates raises.
C3_SkipWhenTruthy ==
    (SecondRun /\ Truthy(PrimaryOutput(config[1], LastOp.bank_before, LastOp.before).val))
        => /\ ~LastOp.invoked
           /\ PrimaryCreatedAtKept
           /\ doc = LastOp.before
           /\ (_sync_outputs_on_skip(config[1], LastOp.bank_before, LastOp.before).err = "none"
                  => LastOp.status = "skipped")
           /\ LastOp.status \in {"skipped", "raised"}

\* a completed run stored the primary output and the next run was skipped
C3_Witness ==
    /\ Len(log) = 2
    /\ log[1].status = "completed" /\ log[1].invoked
    /\ ~PrimaryOutput(config[1], log[1].bank_before, log[1].before).exists
    /\ log[2].status = "skipped"
    /\ CreatedAtOf(doc, PrimaryOutput(config[1], log[2].bank_before, log[2].before).path)
          = Stamp(1)

(***************************************************************************)
(* One conditional node evaluated against a bank: the node's branches are  *)
(* drawn from a pool, each given the target G<position>.                   *)
(***************************************************************************)
MaxBranches == 2

NoCondition == [kind |-> "none", python |-> <<>>, op |-> "", compare_to |-> <<>>]

Comparison(value, op, compare_to) ==
    [value |-> value,
     condition |-> [kind |-> "compare", python |-> <<>>, op |-> op, compare_to |-> compare_to]]

PythonCondition(value, python) ==
    [value |-> value,
     condition |-> [kind |-> "python", python |-> python, op |-> "", compare_to |-> <<>>]]

CondBranches ==
    {Comparison(<<"{", "{", "s", "c", "o", "r", "e", "}", "}">>, ">=", <<"{", "{", "t", "h",
        "r", "e", "s", "h", "o", "l", "d", "}", "}">>),
     Comparison(<<"{", "{", "c", "o", "u", "n", "t", "+", "+", "}", "}">>, "<", <<"1">>),
     Comparison(<<"{", "{", "s", "c", "o", "r", "e", "}", "}">>, "~=", <<"1">>),
     Comparison(<<"{", "{", "n", "o", "p", "e", "}", "}">>, "==", <<"1">>),
     PythonCondition(<<"{", "{", "c", "o", "u", "n", "t", "}", "}">>, <<"v", "a", "l", "u",
         "e", " ", ">", "=", " ", "1">>),
     [value |-> <<>>, condition |-> NoCondition]}

GotoOf(i) == <<"G">> \o IntToStr(i)

S_ELSE == <<"E", "L", "S", "E">>

CondNodes ==
    {[id |-> <<"r", "o", "u", "t", "e">>, type |-> "conditional",
      branches |-> [i \in 1..n |->
                       [value |-> bs[i].value, condition |-> bs[i].condition,
                        goto |-> GotoOf(i)]],
      else_goto |-> S_ELSE] :
        n \in 1..MaxBranches, bs \in [1..MaxBranches -> CondBranches]}

CondBanks ==
    {VMap((S_score :> VFloat(9)) @@ (<<"t", "h", "r", "e", "s", "h", "o", "l",
        "d">> :> VFloat(8)) @@ (<<"c", "o", "u", "n", "t">> :> VInt(0))),
     VMap((S_score :> VFloat(5)) @@ (<<"t", "h", "r", "e", "s", "h", "o", "l",
         "d">> :> VFloat(8)) @@ (<<"c", "o", "u", "n", "t">> :> VInt(1))),
     VMap((S_score :> VFloat(5)) @@ (<<"t", "h", "r", "e", "s", "h", "o", "l",
         "d">> :> VFloat(8)) @@ (<<"c", "o", "u", "n", "t">> :> VInt(0)))}

InitCond ==
    /\ doc = EmptyMap
    /\ bank \in CondBanks
    /\ config \in {<<n>> : n \in CondNodes}
    /\ current = 0
    /\ phase = "idle"
    /\ error = "none"
    /\ trace = <<>>
    /\ calls = 0
    /\ log = <<>>

Evaluate ==
    /\ phase = "idle"
    /\ LET r == evaluate_conditional(config[1], bank, doc)
       IN  /\ bank' = r.vars
           /\ error' = r.err
           /\ phase' = IF r.err = "none" THEN "returned" ELSE "raised"
           /\ log' = Append(log, [op |-> "evaluate_conditional", err |-> r.err,
                                  goto |-> r.goto, bank_before |-> bank])
    /\ UNCHANGED <<doc, config, current, trace, calls>>

NextCond == Evaluate

SpecCond == InitCond /\ [][NextCond]_vars

\* the bank as the first i branches leave it, tried in declared order
RECURSIVE BankAfter(_, _, _, _)
BankAfter(branches, i, bankv, context) ==
    IF i = 0 THEN bankv
    ELSE _branch_matches(branches[i], BankAfter(branches, i - 1, bankv, context), context).vars

\* the positions of the branches that match when tried in declared order
Matching(node, bankv, context) ==
    {i \in 1..Len(node.branches) :
        LET m == _branch_matches(node.branches[i],
                                 BankAfter(node.branches, i - 1, bankv, context), context)
        IN  m.err = "none" /\ m.val}

Min(S) == CHOOSE n \in S : \A m \in S : n <= m

\* C4: evaluate_conditional returns the goto of the first branch, in declared
\* order, that matches, even when a later branch also matches, and the else
\* target when no branch matches.
C4_FirstMatchWins ==
    (log # <<>> /\ LastOp.err = "none")
        => LET ms == Matching(config[1], LastOp.bank_before, doc)
           IN  LastOp.goto = IF ms = {} THEN config[1].else_goto
                             ELSE config[1].branches[Min(ms)].goto

\* a node whose two branches both match was evaluated and took the first
C4_Witness ==
    /\ log # <<>> /\ LastOp.err = "none"
    /\ Matching(config[1], LastOp.bank_before, doc) = {1, 2}
    /\ config[1].branches[1].condition.kind = "compare"
    /\ LastOp.goto = GotoOf(1)

(***************************************************************************)
(* execute_workflow as a state machine.  config is [vars, flow]; current   *)
(* is the program counter (from 0, as in the code); phase is "idle" before *)
(* the call, "running" in the loop, "break" after END, then "returned" or  *)
(* "raised"; trace records the nodes visited.                              *)
(***************************************************************************)
MaxSteps == 4

\* execute_workflow up to the loop: the bank is built and the counters
\* rehydrated
Start ==
    /\ phase = "idle"
    /\ LET r == _rehydrate_counters(doc, InitialBank(config, doc))
       IN  /\ bank' = r.vars
           /\ error' = r.err
           /\ phase' = IF r.err = "none" THEN "running" ELSE "raised"
    /\ current' = 0
    /\ log' = Append(log, [op |-> "execute_workflow", before |-> doc])
    /\ config' = ConfigAfter(config, bank')
    /\ UNCHANGED <<doc, trace, calls>>

\* an execute node that is skipped leaves the counter where it is
NextIndex_skip_stays(cur, status) == IF status = "skipped" THEN cur ELSE cur + 1

\* current += 1 after an execute node, whatever status it returned
NextIndex(cur, status) == cur + 1

Visit(node, status, goto, capability) ==
    [id |-> node.id, index |-> current, type |-> node.type, status |-> status,
     goto |-> goto, capability |-> capability]

\* the loop turn of an engine that carries on after a failed node: the
\* failure is recorded and the node is taken up again
StepExecute_retries(outcome) ==
    /\ phase = "running"
    /\ current < Len(config.flow)
    /\ Len(trace) < MaxSteps
    /\ config.flow[current + 1].type = "execute"
    /\ LET node == config.flow[current + 1]
           r == execute_node(node, bank, doc, outcome, Stamp(Len(trace) + 1))
       IN  /\ bank' = r.vars
           /\ doc' = r.doc
           /\ calls' = IF r.invoked THEN calls + 1 ELSE calls
           /\ trace' = Append(trace, Visit(node, r.status, <<>>,
                                           IF r.invoked THEN outcome.kind ELSE "none"))
           /\ current' = IF r.err = "none" THEN NextIndex(current, r.status) ELSE current
           /\ UNCHANGED <<phase, error>>
    /\ UNCHANGED <<config, log>>

\* one turn of the loop at an execute node, with the capability's outcome
StepExecute(outcome) ==
    /\ phase = "running"
    /\ current < Len(config.flow)
    /\ Len(trace) < MaxSteps
    /\ config.flow[current + 1].type = "execute"
    /\ LET node == config.flow[current + 1]
           r == execute_node(node, bank, doc, outcome, Stamp(Len(trace) + 1))
       IN  /\ bank' = r.vars
           /\ doc' = r.doc
           /\ calls' = IF r.invoked THEN calls + 1 ELSE calls
           /\ trace' = Append(trace, Visit(node, r.status, <<>>,
                                           IF r.invoked THEN outcome.kind ELSE "none"))
           /\ IF r.err = "none"
              THEN /\ current' = NextIndex(current, r.status)
                   /\ UNCHANGED <<phase, error>>
              ELSE /\ phase' = "raised"
                   /\ error' = r.err
                   /\ UNCHANGED current
    /\ config' = ConfigAfter(config, bank')
    /\ UNCHANGED log

\* a turn at a conditional node that looks the target up among the node ids
\* before it takes it for the terminal sentinel
StepConditional_looks_up_first ==
    /\ phase = "running"
    /\ current < Len(config.flow)
    /\ Len(trace) < MaxSteps
    /\ config.flow[current + 1].type = "conditional"
    /\ LET node == config.flow[current + 1]
           r == evaluate_conditional(node, bank, doc)
           target == NodeIndex(config.flow, r.goto)
       IN  /\ bank' = r.vars
           /\ trace' = Append(trace, Visit(node, IF r.err = "none" THEN "routed" ELSE "raised",
                                           r.goto, "none"))
           /\ IF r.err # "none"
              THEN /\ phase' = "raised"
                   /\ error' = IF r.err = "ConditionalEvaluationError"
                               THEN "WorkflowExecutionError" ELSE r.err
                   /\ UNCHANGED current
              ELSE IF target # 0
              THEN /\ current' = target - 1
                   /\ UNCHANGED <<phase, error>>
              ELSE IF r.goto = S_END
              THEN /\ phase' = "break"
                   /\ UNCHANGED <<current, error>>
              ELSE /\ phase' = "raised"
                   /\ error' = "WorkflowExecutionError"
                   /\ UNCHANGED current
    /\ config' = ConfigAfter(config, bank')
    /\ UNCHANGED <<doc, calls, log>>

\* one turn of the loop at a conditional node
StepConditional ==
    /\ phase = "running"
    /\ current < Len(config.flow)
    /\ Len(trace) < MaxSteps
    /\ config.flow[current + 1].type = "conditional"
    /\ LET node == config.flow[current + 1]
           r == evaluate_conditional(node, bank, doc)
           target == NodeIndex(config.flow, r.goto)
       IN  /\ bank' = r.vars
           /\ trace' = Append(trace, Visit(node, IF r.err = "none" THEN "routed" ELSE "raised",
                                           r.goto, "none"))
           /\ IF r.err # "none"
              THEN /\ phase' = "raised"
                   /\ error' = IF r.err = "ConditionalEvaluationError"
                               THEN "WorkflowExecutionError" ELSE r.err
                   /\ UNCHANGED current
              ELSE IF r.goto = S_END
              THEN /\ phase' = "break"
                   /\ UNCHANGED <<current, error>>
              ELSE IF target = 0
              THEN /\ phase' = "raised"
                   /\ error' = "WorkflowExecutionError"
                   /\ UNCHANGED current
              ELSE /\ current' = target - 1
                   /\ UNCHANGED <<phase, error>>
    /\ config' = ConfigAfter(config, bank')
    /\ UNCHANGED <<doc, calls, log>>

\* after the loop: the bank is merged into the document's "vars"
Finish ==
    /\ \/ phase = "break"
       \/ phase = "running" /\ current >= Len(config.flow)
    /\ LET m == MergeVars(doc, bank)
       IN  /\ doc' = m.doc
           /\ error' = m.err
           /\ phase' = IF m.err = "none" THEN "returned" ELSE "raised"
    /\ UNCHANGED <<bank, config, current, trace, calls, log>>

S_evaluate == <<"e", "v", "a", "l", "u", "a", "t", "e">>

S_improve == <<"i", "m", "p", "r", "o", "v", "e">>

S_check == <<"c", "h", "e", "c", "k">>

S_count == <<"c", "o", "u", "n", "t">>

S_limit == <<"l", "i", "m", "i", "t">>

EvaluateNode ==
    [id |-> S_evaluate, type |-> "execute", node |-> "stub_nodes.SimpleEvaluator",
     inputs |-> <<>>, outputs |-> << <<S_result, <<"o", "p", "t", "i", "m", "i", "z", "a", "t",
         "i", "o", "n", "_", "f", "l", "o", "w", ".", "e", "v", "a", "l", "u", "a", "t", "i",
         "o", "n">>>> >>,
     skip_if_output_present |-> TRUE]

ImproveNode ==
    [id |-> S_improve, type |-> "execute", node |-> "stub_nodes.increment_iteration",
     inputs |-> << <<<<"e", "v", "a", "l", "u", "a", "t", "i", "o", "n">>, <<"o", "p", "t",
         "i", "m", "i", "z", "a", "t", "i", "o", "n", "_", "f", "l", "o", "w", ".", "e", "v",
         "a", "l", "u", "a", "t", "i", "o", "n">>>> >>,
     outputs |-> << <<S_result, <<"o", "p", "t", "i", "m", "i", "z", "a", "t", "i", "o", "n",
         "_", "f", "l", "o", "w", ".", "i", "m", "p", "r", "o", "v", "e", "d">>>> >>,
     skip_if_output_present |-> FALSE]

\* "{{count++}}" >= "{{limit}}" goes to goto, anything else to else_goto
CheckNode(goto, else_goto) ==
    [id |-> S_check, type |-> "conditional",
     branches |-> <<[value |-> <<"{", "{", "c", "o", "u", "n", "t", "+", "+", "}", "}">>,
                     condition |-> [kind |-> "compare", python |-> <<>>, op |-> ">=",
                                    compare_to |-> <<"{", "{", "l", "i", "m", "i", "t", "}", "}">>],
                     goto |-> goto]>>,
     else_goto |-> else_goto]

Targets == {S_END, S_evaluate, S_improve, <<"n", "o", "w", "h", "e", "r", "e">>}

\* a branch {value "{{count}}", op "contains", compare_to "5", goto "END"}
ContainsBranch ==
    [value |-> <<"{", "{", "c", "o", "u", "n", "t", "}", "}">>,
     condition |-> [kind |-> "compare", python |-> <<>>, op |-> "contains",
                    compare_to |-> <<"5">>],
     goto |-> S_END]

\* a branch without a condition
AlwaysBranch(goto) == [value |-> <<>>, condition |-> NoCondition, goto |-> goto]

\* conditional nodes with the unsupported comparator in their first and in
\* their second branch
ContainsNodes ==
    {[id |-> S_check, type |-> "conditional", branches |-> bs, else_goto |-> S_improve] :
        bs \in {<<ContainsBranch>>, <<AlwaysBranch(S_improve), ContainsBranch>>}}

\* an execute node whose id is the name of the terminal sentinel
EndNode ==
    [id |-> S_END, type |-> "execute", node |-> "stub_nodes.SimpleEvaluator",
     inputs |-> <<>>, outputs |-> << <<S_result, <<"o", "p", "t", "i", "m", "i", "z", "a", "t",
         "i", "o", "n", "_", "f", "l", "o", "w", ".", "e", "n", "d", "e", "d">>>> >>,
     skip_if_output_present |-> FALSE]

Flows ==
    {<<EvaluateNode>>, <<EvaluateNode, ImproveNode>>, <<ImproveNode, EvaluateNode>>}
        \cup {<<EvaluateNode, EndNode, CheckNode(S_END, S_evaluate)>>,
              <<EndNode, CheckNode(S_improve, S_END), ImproveNode>>}
        \cup {<<EvaluateNode, CheckNode(g, e), ImproveNode>> : g, e \in Targets}
        \cup {<<EvaluateNode, n, ImproveNode>> : n \in ContainsNodes}
        \cup {<<EvaluateNode,
                 [id |-> S_check, type |-> "conditional",
                  branches |-> <<[ContainsBranch EXCEPT
                                     !.value = <<"{", "{", "m", "i", "s", "s", "i", "n", "g", "}", "}">>,
                                     !.condition.op = "=="]>>,
                  else_goto |-> S_improve],
                 ImproveNode>>}

EngineVars == VMap((S_count :> VInt(0)) @@ (S_limit :> VInt(1)))

EngineDocs ==
    {EmptyMap,
     VMap(S_vars :> VMap((S_count :> VInt(1)) @@ (<<"s", "e", "e", "n">> :> VBool(TRUE)))),
     VMap(S_vars :> VInt(3)),
     VMap((S_vars :> VMap(S_count :> VInt(0)))
          @@ (S_optimization_flow :> VMap(<<"e", "v", "a", "l", "u", "a", "t", "i", "o",
              "n">> :> VMap(S_created_at :> VStr(S_T0)))))}

EngineOutcomes ==
    {[kind |-> "return", result |-> VMap(S_result :> VMap(K_x :> VInt(1))), bump |-> <<>>],
     [kind |-> "return", result |-> VMap(S_result :> VMap(K_x :> VInt(1))), bump |-> S_count],
     [kind |-> "return", result |-> VMap(S_score :> VInt(9)), bump |-> <<>>],
     [kind |-> "not_mapping", result |-> None, bump |-> <<>>],
     [kind |-> "raise", result |-> None, bump |-> <<>>]}

Init ==
    /\ doc \in EngineDocs
    /\ config \in {[vars |-> EngineVars, flow |-> f] : f \in Flows}
    /\ bank = EmptyMap
    /\ current = 0
    /\ phase = "idle"
    /\ error = "none"
    /\ trace = <<>>
    /\ calls = 0
    /\ log = <<>>

Next ==
    \/ Start
    \/ \E outcome \in EngineOutcomes : StepExecute(outcome)
    \/ StepConditional
    \/ Finish

Spec == Init /\ [][Next]_vars

Last(s) == s[Len(s)]

ExecuteOnly == \A i \in 1..Len(config.flow) : config.flow[i].type = "execute"

\* the i-th visit was to the i-th node of the flow
VisitedInOrder ==
    \A i \in 1..Len(trace) :
        /\ i <= Len(config.flow)
        /\ trace[i].index = i - 1
        /\ trace[i].id = config.flow[i].id

Terminated == phase \in {"returned", "raised"}

\* C5 (as stated): in a flow of only execute nodes whose capabilities all
\* return, a run that has ended has visited every node exactly once in
\* declared order.
C5_AllVisitedWhenCapabilitiesReturn ==
    (/\ ExecuteOnly
     /\ Terminated
     /\ \A i \in 1..Len(trace) : trace[i].capability \in {"none", "return"})
        => Len(trace) = Len(config.flow) /\ VisitedInOrder

C5_Steps ==
    ExecuteOnly =>
        /\ VisitedInOrder
        /\ phase # "break"
        /\ phase = "running" => current = Len(trace)
        /\ \A i \in 1..Len(trace) :
              trace[i].status \in {"completed", "skipped"} \/ (i = Len(trace) /\ phase = "raised")
        /\ (Terminated /\ trace # <<>> /\ Last(trace).status # "raised")
              => Len(trace) = Len(config.flow)

C5_LeavesAtEnd ==
    (ExecuteOnly /\ phase = "running" /\ current >= Len(config.flow)) => Terminated'

\* C5 (amended): in a flow of only execute nodes the nodes are visited in
\* declared order, each at most once, a skipped node advancing the counter
\* by one like a completed one; the run ends at the first node whose
\* execution raises, and otherwise after every node was visited once, when
\* the counter passes the end of the flow, which is the engine's next step.
C5_VisitsInOrderThenStops == [](C5_Steps) /\ [][C5_LeavesAtEnd]_vars

\* a two-node flow returned with its first node skipped and its second completed
C5_Witness ==
    /\ ExecuteOnly
    /\ phase = "returned"
    /\ Len(trace) = 2
    /\ trace[1].status = "skipped"
    /\ trace[2].status = "completed"

FlowIds == {config.flow[i].id : i \in 1..Len(config.flow)}

\* C6: after a conditional node is evaluated the next node visited is the
\* node whose id is the returned target; a returned "END" stops the run
\* with no further node visited.
C6_RoutesToTarget ==
    \A i \in 1..Len(trace) :
        trace[i].status = "routed" =>
            IF trace[i].goto = S_END
            THEN i = Len(trace) /\ phase \in {"break", "returned", "raised"}
            ELSE /\ i < Len(trace) => config.flow[trace[i + 1].index + 1].id = trace[i].goto
                 /\ (i = Len(trace) /\ phase = "running")
                       => /\ current < Len(config.flow)
                          /\ config.flow[current + 1].id = trace[i].goto

\* a conditional routed back to an earlier node, which was visited next, and
\* a later conditional ended the run
C6_Witness ==
    /\ Len(trace) >= 4
    /\ trace[2].status = "routed" /\ trace[2].goto = S_evaluate
    /\ trace[3].id = S_evaluate
    /\ trace[4].status = "routed" /\ trace[4].goto = S_END
    /\ phase = "returned"

\* C7: a conditional that routes to a target that is neither "END" nor the
\* id of a node of the flow makes execute_workflow raise
\* WorkflowExecutionError, and no further node is executed.
C7_UnknownTargetRaises ==
    \A i \in 1..Len(trace) :
        (trace[i].status = "routed" /\ trace[i].goto \notin FlowIds \cup {S_END})
            => /\ i = Len(trace)
               /\ phase = "raised"
               /\ error = "WorkflowExecutionError"

C7_Witness ==
    /\ trace # <<>>
    /\ Last(trace).status = "routed"
    /\ Last(trace).goto \notin FlowIds \cup {S_END}
    /\ Len(trace) < Len(config.flow)
    /\ phase = "raised"

\* C8: when execute_workflow returns, the document has a "vars" mapping in
\* which every key of the final bank maps to the bank's final value.
C8_BankMerged ==
    phase = "returned" =>
        /\ Has(doc, S_vars)
        /\ IsDict(doc.v[S_vars])
        /\ \A k \in DOMAIN bank.v : Has(doc.v[S_vars], k) /\ doc.v[S_vars].v[k] = bank.v[k]

\* a run that invoked no capability returned with a counter that the
\* document had persisted with another value
C8_Witness ==
    /\ phase = "returned"
    /\ calls = 0
    /\ Has(log[1].before, S_vars)
    /\ IsDict(log[1].before.v[S_vars])
    /\ log[1].before.v[S_vars].v[S_count] # bank.v[S_count]


(***************************************************************************)
(* The start of a run on documents that hold repeated-attempt records:     *)
(* execute_workflow up to its loop, on every set of record keys below,     *)
(* with and without persisted vars and with two sets of config defaults.   *)
(***************************************************************************)
RecordKeys ==
    {S_subjective_evaluation_ \o <<"1">>, S_subjective_evaluation_ \o <<"2">>,
     S_improved_manifest_B \o <<"1">>, S_improved_manifest_B \o <<"2">>,
     S_improved_code_B \o <<"1">>, S_improved_code_B \o <<"3">>}

Records == {VMap([k \in ks |-> EmptyMap]) : ks \in SUBSET RecordKeys}

PersistedVars ==
    {VMap(S_count :> VInt(7)),
     VMap((S_count :> VInt(7)) @@ (S_subjective_iteration_count :> VInt(5))
          @@ (S_code_iteration_count :> VInt(5))),
     VMap((S_subjective_iteration_count :> VInt(1)) @@ (S_code_iteration_count :> VInt(0))
          @@ (S_latest_manifest_key :> RecordKey(S_improved_code_B, 1))
          @@ (S_latest_code_key :> RecordKey(S_improved_code_B, 1))),
     VMap(S_code_iteration_count :> VStr(<<"2">>)),
     VInt(3)}

StartDocs ==
    LET flows == Records \cup {VStr(<<"x">>)}
    IN  {EmptyMap} \cup {VMap(S_vars :> p) : p \in PersistedVars}
            \cup {VMap(S_optimization_flow :> f) : f \in flows}
            \cup {VMap((S_optimization_flow :> f) @@ (S_vars :> p)) :
                      f \in flows, p \in PersistedVars}

StartVars ==
    {EngineVars,
     VMap((S_latest_manifest_key :> VStr(S_original_manifest))
          @@ (S_latest_code_key :> VStr(S_original_manifest)) @@ EngineVars.v)}

InitStart ==
    /\ doc \in StartDocs
    /\ config \in {[vars |-> v, flow |-> <<EvaluateNode>>] : v \in StartVars}
    /\ bank = EmptyMap
    /\ current = 0
    /\ phase = "idle"
    /\ error = "none"
    /\ trace = <<>>
    /\ calls = 0
    /\ log = <<>>

NextStart == Start

SpecStart == InitStart /\ [][NextStart]_vars

\* the loop is about to visit its first node
AtFirstNode == phase = "running" /\ trace = <<>> /\ log # <<>>

HasRecords == Has(doc, S_optimization_flow) /\ IsDict(doc.v[S_optimization_flow])

\* the n of the keys <prefix><n> of the document's optimization_flow
RecordNumbers(prefix) ==
    {StrToNat(SubSeq(k, Len(prefix) + 1, Len(k))) :
        k \in {key \in DOMAIN doc.v[S_optimization_flow].v :
                  /\ StartsWith(key, prefix)
                  /\ IsDigitStr(SubSeq(key, Len(prefix) + 1, Len(key)))}}

Above(name, n) == Has(bank, name) /\ IsNumeric(bank.v[name]) /\ Tenths(bank.v[name]) > 10 * n

\* a counter that the overlaid bank held above n is what the bank holds
NotLowered(name, n) ==
    LET before == InitialBank(config, doc)
    IN  (Has(before, name) /\ IsNumeric(before.v[name]) /\ Tenths(before.v[name]) > 10 * n)
            => Has(bank, name) /\ bank.v[name] = before.v[name]

C9_Subjective ==
    LET subjective == RecordNumbers(S_subjective_evaluation_)
    IN  subjective # {} =>
            /\ Above(S_subjective_iteration_count, Max(subjective))
            /\ Has(bank, S_last_subjective_iteration)
            /\ bank.v[S_last_subjective_iteration] = VInt(Max(subjective))
            /\ NotLowered(S_subjective_iteration_count, Max(subjective))

C9_Code ==
    LET manifests == RecordNumbers(S_improved_manifest_B)
        prefix == IF manifests # {} THEN S_improved_manifest_B ELSE S_improved_code_B
        numbers == RecordNumbers(prefix)
    IN  numbers # {} =>
            /\ Above(S_code_iteration_count, Max(numbers))
            /\ NotLowered(S_code_iteration_count, Max(numbers))
            /\ Has(bank, S_latest_code_key)
            /\ bank.v[S_latest_code_key] = RecordKey(prefix, Max(numbers))
            /\ Has(bank, S_latest_manifest_key)
            /\ bank.v[S_latest_manifest_key] = RecordKey(prefix, Max(numbers))

\* C9: after the counters are rehydrated, subjective_iteration_count is
\* above every n of a key subjective_evaluation_<n> and
\* last_subjective_iteration is the largest such n; code_iteration_count is
\* above every n of a key improved_manifest_B<n> (improved_code_B<n> when
\* there is no manifest record) and latest_manifest_key and latest_code_key
\* name the record with the largest n; a counter already above the largest
\* index is not lowered.
C9_CountersRehydrated == (AtFirstNode /\ HasRecords) => C9_Subjective /\ C9_Code

RehydratedNames ==
    {S_last_subjective_iteration, S_subjective_iteration_count, S_latest_manifest_key,
     S_latest_code_key, S_code_iteration_count}

Persisted == IF Has(doc, S_vars) /\ IsDict(doc.v[S_vars]) THEN doc.v[S_vars] ELSE EmptyMap

\* C10: at the first node of a run every variable that rehydration does not
\* recompute has the document's persisted value when the document's "vars"
\* has one, the config default otherwise, and is absent when neither has it.
C10_PersistedOverDefaults ==
    AtFirstNode =>
        \A k \in (DOMAIN bank.v \cup DOMAIN Persisted.v \cup DOMAIN config.vars.v) \ RehydratedNames :
            IF Has(Persisted, k) THEN Has(bank, k) /\ bank.v[k] = Persisted.v[k]
            ELSE IF Has(config.vars, k) THEN Has(bank, k) /\ bank.v[k] = config.vars.v[k]
            ELSE ~Has(bank, k)

\* a run started on a document whose persisted count differs from the default
C10_Witness ==
    /\ AtFirstNode
    /\ Has(Persisted, S_count) /\ Has(config.vars, S_count)
    /\ Persisted.v[S_count] # config.vars.v[S_count]
    /\ bank.v[S_count] = Persisted.v[S_count]
    /\ bank.v[S_limit] = config.vars.v[S_limit]

(***************************************************************************)
(* One execute step seen from outside: execute_node on nodes whose primary *)
(* output goes to the bank ("vars." paths) or to the document, with a      *)
(* provenance key and a "vars." side output, and on capability references  *)
(* that do not resolve; the capability returns results that hold or lack   *)
(* the declared keys, returns a list, or raises after raising a counter.   *)
(***************************************************************************)
S_latest == <<"l", "a", "t", "e", "s", "t">>

S_evaluation_key == <<"e", "v", "a", "l", "u", "a", "t", "i", "o", "n", "_", "k", "e", "y">>

S_evaluation_path == <<"o", "p", "t", "i", "m", "i", "z", "a", "t", "i", "o", "n", "_", "f",
    "l", "o", "w", ".", "e", "v", "a", "l", "u", "a", "t", "i", "o", "n">>

StepOutputs ==
    {<< <<S_result, <<"v", "a", "r", "s", ".", "l", "a", "t", "e", "s", "t">>>> >>,
     << <<S_result, <<"v", "a", "r", "s", ".", "n", ".", "k">>>> >>,
     << <<S_evaluation_key, <<"{", "{", "l", "a", "t", "e", "s", "t", "}", "}">>>>, <<S_result,
         S_evaluation_path>>,
        <<<<"v", "a", "r", "s", ".", "s", "e", "e", "n">>, <<"y", "e", "s">>>> >>}

CapabilityRefs ==
    {"stub_nodes.missing_attr", "stub_nodes.SOME_VALUE", "stub_nodes.NotANode",
     "no_such_module.evaluate"}

StepNodes ==
    {[id |-> S_evaluate, type |-> "execute", node |-> "stub_nodes.increment_iteration",
      inputs |-> <<>>, outputs |-> o, skip_if_output_present |-> FALSE] : o \in StepOutputs}
    \cup
    {[id |-> S_evaluate, type |-> "execute", node |-> ref, inputs |-> <<>>,
      outputs |-> << <<S_result, S_evaluation_path>> >>,
      skip_if_output_present |-> FALSE] : ref \in CapabilityRefs}

StepResults ==
    {VMap(S_result :> VStr(<<"X">>)),
     VMap(S_result :> VMap(S_latest :> VInt(1))),
     VMap((S_result :> VMap(K_x :> VInt(1))) @@ (S_evaluation_key :> VStr(<<"z">>))),
     VMap(S_evaluation_key :> VStr(<<"z">>)),
     VMap(S_score :> VInt(9))}

StepOutcomes ==
    {[kind |-> "return", result |-> r, bump |-> <<>>] : r \in StepResults}
        \cup {[kind |-> "return", result |-> VMap(S_result :> VStr(<<"X">>)),
               bump |-> S_count],
              [kind |-> "not_mapping", result |-> None, bump |-> <<>>],
              [kind |-> "raise", result |-> None, bump |-> S_count]}

StepDocs ==
    {VMap(S_vars :> VMap((S_latest :> VStr(<<"o", "l", "d">>)) @@ (<<"s", "t", "a", "l",
        "e">> :> VInt(1)))),
     VMap(S_optimization_flow :> VMap(<<"e", "v", "a", "l", "u", "a", "t", "i", "o",
         "n">> :> VMap(S_created_at :> VStr(S_T0))))}

StepBank == VMap((S_latest :> VStr(<<"e", "v", "a", "l", "u", "a", "t", "i", "o",
    "n">>)) @@ (S_count :> VInt(0)))

InitStep ==
    /\ doc \in StepDocs
    /\ bank = StepBank
    /\ config \in {<<n>> : n \in StepNodes}
    /\ current = 0
    /\ phase = "idle"
    /\ error = "none"
    /\ trace = <<>>
    /\ calls = 0
    /\ log = <<>>

NextStep == \E outcome \in StepOutcomes : RunNode(outcome)

SpecStep == InitStep /\ [][NextStep]_vars

\* the bank variables that the node's outputs write through "vars." paths
VarsWritten(node) ==
    LET dests == {node.outputs[i][1] : i \in 1..Len(node.outputs)}
                     \cup {node.outputs[i][2] : i \in 1..Len(node.outputs)}
    IN  {Head(DottedParts(AfterVarsDot(d))) : d \in {x \in dests : StartsWith(x, S_vars_dot)}}

\* C11: the capability finds the bank in the document under "vars"; when
\* the invocation has ended, by a return or by a raise, the binding is gone:
\* the document has no "vars" unless the step's outputs wrote "vars." paths
\* afterwards, and then "vars" holds those destinations only, not the bank.
C11_ScopedBinding ==
    (log # <<>> /\ LastOp.invoked) =>
        /\ Has(LastOp.seen, S_vars)
        /\ LastOp.seen.v[S_vars] = LastOp.bank_before
        /\ Del(LastOp.seen, S_vars) = Del(LastOp.before, S_vars)
        /\ (LastOp.outcome.kind \in {"raise", "not_mapping"} \/ VarsWritten(config[1]) = {})
              => ~Has(doc, S_vars)
        /\ Has(doc, S_vars)
              => /\ IsDict(doc.v[S_vars])
                 /\ DOMAIN doc.v[S_vars].v \subseteq VarsWritten(config[1])
                 /\ doc.v[S_vars] # bank

\* a capability that raised a counter of the bank and then raised itself
\* left a document that had persisted vars with none
C11_Witness ==
    /\ Len(log) = 1
    /\ LastOp.invoked /\ LastOp.outcome.kind = "raise"
    /\ Has(LastOp.before, S_vars)
    /\ ~Has(doc, S_vars)
    /\ bank.v[S_count] = VInt(1)

\* the declared output the last step took as primary, as <<key, template>>
StepPrimary == FirstResultOutput(config[1].outputs, LastOp.outcome.result)

\* the last step completed with a primary output destined for "vars.<p>"
VarsPrimary ==
    /\ log # <<>>
    /\ LastOp.status = "completed"
    /\ StartsWith(StepPrimary[2], S_vars_dot)

\* the document has the value at the path and nothing beside it
StoredBare(path, value) ==
    LET found == resolve_path(doc, path)
        parts == DottedParts(path)
        parent == ResolveParts(doc, SubSeq(parts, 1, Len(parts) - 1))
    IN  /\ found.err = "none"
        /\ found.val = value
        /\ DOMAIN parent.val.v = {parts[Len(parts)]}

\* C12 (as stated): after a step whose primary output renders to "vars.<p>"
\* the bank has the capability's result value at <p>, the document resolves
\* "vars.<p>" to the same value, and no metadata is added.
C12_VarsPrimaryStored ==
    VarsPrimary =>
        LET p == AfterVarsDot(StepPrimary[2])
            value == LastOp.outcome.result.v[StepPrimary[1]]
        IN  /\ Has(bank, p)
            /\ bank.v[p] = value
            /\ StoredBare(StepPrimary[2], value)

\* C12 (amended): for a node whose only output renders to "vars.<p>", the
\* document resolves "vars.<p>" to the result value with no metadata, and
\* the bank has that value at <p>, unless the value is a mapping with a key
\* <p>: then the bank ends with the mapping's own value for <p>.
C12_VarsPrimaryStoredOrRefreshed ==
    (VarsPrimary /\ Len(config[1].outputs) = 1) =>
        LET p == AfterVarsDot(StepPrimary[2])
            value == LastOp.outcome.result.v[StepPrimary[1]]
        IN  /\ Has(bank, p)
            /\ bank.v[p] = IF IsDict(value) /\ Has(value, p) THEN value.v[p] ELSE value
            /\ StoredBare(StepPrimary[2], value)

\* a step stored the scalar "X" at vars.latest of a document that had an
\* older vars section, and the bank has it
C12_Witness ==
    /\ Len(log) = 1
    /\ VarsPrimary
    /\ StepPrimary[2] = <<"v", "a", "r", "s", ".", "l", "a", "t", "e", "s", "t">>
    /\ Has(LastOp.before, S_vars)
    /\ bank.v[S_latest] = VStr(<<"X">>)
    /\ doc.v[S_vars] = VMap(S_latest :> VStr(<<"X">>))

\* the declared output keys that are neither provenance keys nor "vars."
\* destinations and that the result holds
EligibleKeys(node, result) ==
    {node.outputs[i][1] : i \in {j \in 1..Len(node.outputs) :
        /\ ~EndsWith(node.outputs[j][1], S_key_suffix)
        /\ ~StartsWith(node.outputs[j][1], S_vars_dot)
        /\ Has(result, node.outputs[j][1])}}

\* the document but for the "vars" binding
Beside(context) == Del(context, S_vars)

\* C13: the primary output of a completed step is a declared output key
\* that neither ends in "_key" nor starts with "vars." and is in the
\* capability's result; when the result has no such key the step raises
\* NodeExecutionError and writes nothing to the document.
C13_PrimaryIsResultKey ==
    (log # <<>> /\ LastOp.invoked /\ LastOp.outcome.kind = "return") =>
        IF EligibleKeys(config[1], LastOp.outcome.result) = {}
        THEN /\ LastOp.err = "NodeExecutionError"
             /\ Beside(doc) = Beside(LastOp.before)
        ELSE LastOp.status = "completed"
                => StepPrimary[1] \in EligibleKeys(config[1], LastOp.outcome.result)

\* C14: a capability that returns something that is not a mapping, or a
\* capability reference that does not resolve to something invokable, makes
\* execute_node raise NodeExecutionError, and no output path of the node is
\* written in the document.
C14_UnusableCapabilityRaises ==
    (/\ log # <<>>
     /\ \/ LastOp.invoked /\ LastOp.outcome.kind = "not_mapping"
        \/ Registry(config[1].node) \notin {"class", "function"})
        => /\ LastOp.err = "NodeExecutionError"
           /\ Beside(doc) = Beside(LastOp.before)

(***************************************************************************)
(* Templating on its own: render_string is applied to templates with       *)
(* increment placeholders, one after the other on the same bank.           *)
(***************************************************************************)
MaxRenders == 2

S_open == <<"{", "{">>

S_shut == <<"}", "}">>

S_ratio == <<"r", "a", "t", "i", "o">>

S_flag == <<"f", "l", "a", "g">>

S_n_k == <<"n", ".", "k">>

\* "{{name++}}" and "{{++name}}"
IncTemplate(name, pre) ==
    IF pre THEN S_open \o S_plusplus \o name \o S_shut
    ELSE S_open \o name \o S_plusplus \o S_shut

IncNames == {S_count, S_ratio, S_flag, S_n_k, <<"n", "a", "m", "e">>, <<"m", "i", "s", "s",
    "i", "n", "g">>}

S_two_increments == <<"{", "{", "c", "o", "u", "n", "t", "+", "+", "}", "}", "-", "{", "{",
    "+", "+", "c", "o", "u", "n", "t", "}", "}">>

S_increment_then_missing == <<"{", "{", "c", "o", "u", "n", "t", "+", "+", "}", "}", "-", "{",
    "{", "m", "i", "s", "s", "i", "n", "g", "}", "}">>

S_missing_then_increment == <<"{", "{", "m", "i", "s", "s", "i", "n", "g", "}", "}", "-", "{",
    "{", "c", "o", "u", "n", "t", "+", "+", "}", "}">>

S_increments_then_text == <<"{", "{", "n", ".", "k", "+", "+", "}", "}", "{", "{", "c", "o",
    "u", "n", "t", "+", "+", "}", "}", "{", "{", "n", "a", "m", "e", "+", "+", "}", "}">>

RenderTemplates ==
    {IncTemplate(name, pre) : name \in IncNames, pre \in BOOLEAN}
        \cup {S_increment_then_missing, S_missing_then_increment, S_increments_then_text}
        \cup {S_two_increments, <<"n", "=", "{", "{", "c", "o", "u", "n", "t", "+", "+", "}",
            "}">>, <<"{", "{", " ", "c", "o", "u", "n", "t", " ", "+", "+", " ", "}", "}">>,
            <<"{", "{", "c", "o", "u", "n", "t", "}", "}">>}

RenderBanks ==
    {VMap((S_count :> VInt(c)) @@ (S_ratio :> VFloat(5)) @@ (S_flag :> VBool(TRUE))
          @@ (<<"n">> :> VMap(<<"k">> :> VInt(2))) @@ (<<"n", "a", "m",
              "e">> :> VStr(<<"x">>))) : c \in {1, -1}}

InitRender ==
    /\ doc = EmptyMap
    /\ bank \in RenderBanks
    /\ config = <<>>
    /\ current = 0
    /\ phase = "idle"
    /\ error = "none"
    /\ trace = <<>>
    /\ calls = 0
    /\ log = <<>>

Render(template) ==
    /\ Len(log) < MaxRenders
    /\ LET r == render_string(template, bank, doc)
       IN  /\ bank' = r.vars
           /\ log' = Append(log, [op |-> "render_string", template |-> template,
                                  err |-> r.err, val |-> r.val, before |-> doc,
                                  bank_before |-> bank])
    /\ UNCHANGED <<doc, config, current, phase, error, trace, calls>>

NextTemplating == \E template \in RenderTemplates : Render(template)

SpecTemplating == InitRender /\ [][NextTemplating]_vars

\* C15: rendering "{{name++}}" of a numeric bank variable with value n
\* returns n, rendering "{{++name}}" returns n+1, the variable is n+1
\* afterwards in both cases and nothing else in the bank changes; a template
\* with two increment placeholders of one variable raises it by two.
C15_IncrementByOne ==
    log # <<>> =>
        /\ \A name \in {S_count, S_ratio, S_flag}, pre \in BOOLEAN :
              LastOp.template = IncTemplate(name, pre) =>
                  LET n == LastOp.bank_before.v[name]
                  IN  /\ LastOp.err = "none"
                      /\ IsNumeric(bank.v[name])
                      /\ Tenths(bank.v[name]) = Tenths(n) + 10
                      /\ LastOp.val = IF pre THEN bank.v[name] ELSE n
                      /\ DOMAIN bank.v = DOMAIN LastOp.bank_before.v
                      /\ \A k \in DOMAIN bank.v \ {name} : bank.v[k] = LastOp.bank_before.v[k]
        /\ \A pre \in BOOLEAN :
              LastOp.template = IncTemplate(S_n_k, pre) =>
                  LET n == LastOp.bank_before.v[<<"n">>].v[<<"k">>]
                  IN  /\ LastOp.err = "none"
                      /\ bank.v[<<"n">>].v[<<"k">>] = VInt(n.v + 1)
                      /\ LastOp.val = IF pre THEN VInt(n.v + 1) ELSE n
        /\ LastOp.template = S_two_increments =>
              LET n == LastOp.bank_before.v[S_count].v
              IN  /\ LastOp.err = "none"
                  /\ bank.v[S_count] = VInt(n + 2)
                  /\ LastOp.val = VStr(IntToStr(n) \o <<"-">> \o IntToStr(n + 2))

\* count = 1 was rendered as "{{count++}}", giving 1, and then as
\* "{{++count}}", giving 3
C15_Witness ==
    /\ Len(log) = 2
    /\ log[1].template = IncTemplate(S_count, FALSE) /\ log[1].val = VInt(1)
    /\ log[2].template = IncTemplate(S_count, TRUE) /\ log[2].val = VInt(3)
    /\ bank.v[S_count] = VInt(3)

(***************************************************************************)
(* Comparator branches: evaluate_conditional on a node of one branch       *)
(* {value, op, compare_to, goto "END"} for every supported operator and    *)
(* operands that are numbers, strings, a boolean, null and a mapping.      *)
(***************************************************************************)
T_score == <<"{", "{", "s", "c", "o", "r", "e", "}", "}">>

T_threshold == <<"{", "{", "t", "h", "r", "e", "s", "h", "o", "l", "d", "}", "}">>

T_name == <<"{", "{", "n", "a", "m", "e", "}", "}">>

T_flag == <<"{", "{", "f", "l", "a", "g", "}", "}">>

T_nothing == <<"{", "{", "n", "o", "t", "h", "i", "n", "g", "}", "}">>

T_items == <<"{", "{", "i", "t", "e", "m", "s", "}", "}">>

T_abc == <<"a", "b", "c">>

T_one == <<"1">>

T_nine_tenths == <<"0", ".", "9">>

LeftOperands == {T_score, T_name, T_flag, T_nothing, T_items, T_one}

RightOperands == {T_threshold, T_one, T_abc, T_name, T_nine_tenths, T_items}

CompareNodes ==
    {[id |-> <<"r", "o", "u", "t", "e">>, type |-> "conditional",
      branches |-> <<[value |-> l,
                      condition |-> [kind |-> "compare", python |-> <<>>, op |-> op,
                                     compare_to |-> r],
                      goto |-> S_END]>>,
      else_goto |-> S_ELSE] : l \in LeftOperands, r \in RightOperands, op \in ComparatorNames}

CompareBanks ==
    {VMap((S_score :> VFloat(s)) @@ (<<"t", "h", "r", "e", "s", "h", "o", "l",
        "d">> :> VFloat(8)) @@ (<<"n", "a", "m", "e">> :> VStr(T_abc))
          @@ (S_flag :> VBool(TRUE)) @@ (<<"n", "o", "t", "h", "i", "n",
              "g">> :> None) @@ (<<"i", "t", "e", "m", "s">> :> EmptyMap)) :
        s \in {9, 5}}

InitCompare ==
    /\ doc = EmptyMap
    /\ bank \in CompareBanks
    /\ config \in {<<n>> : n \in CompareNodes}
    /\ current = 0
    /\ phase = "idle"
    /\ error = "none"
    /\ trace = <<>>
    /\ calls = 0
    /\ log = <<>>

NextCompare == Evaluate

SpecCompare == InitCompare /\ [][NextCompare]_vars

\* what an operand template of the nodes above stands for
OperandValue(template) ==
    CASE template = T_score -> bank.v[S_score]
      [] template = T_threshold -> bank.v[<<"t", "h", "r", "e", "s", "h", "o", "l", "d">>]
      [] template = T_name -> bank.v[<<"n", "a", "m", "e">>]
      [] template = T_flag -> bank.v[S_flag]
      [] template = T_nothing -> bank.v[<<"n", "o", "t", "h", "i", "n", "g">>]
      [] template = T_items -> bank.v[<<"i", "t", "e", "m", "s">>]
      [] template = T_abc -> VStr(T_abc)
      [] template = T_one -> VInt(1)
      [] template = T_nine_tenths -> VFloat(9)

LeftValue == OperandValue(config[1].branches[1].value)

RightValue == OperandValue(config[1].branches[1].condition.compare_to)

BranchOp == config[1].branches[1].condition.op

\* op between two integers
NumHolds(op, a, b) ==
    CASE op = "==" -> a = b
      [] op = "!=" -> a # b
      [] op = ">" -> a > b
      [] op = ">=" -> a >= b
      [] op = "<" -> a < b
      [] op = "<=" -> a <= b

\* numbers (booleans among them), or the type itself
Kind(x) == IF x.t \in {"int", "float", "bool"} THEN "number" ELSE x.t

Evaluated == log # <<>> /\ LastOp.op = "evaluate_conditional"

\* C16: a comparator branch matches exactly when its operator holds
\* between the two resolved operands: for numbers by their values, for
\* equal strings by ==, >= and <=; score 0.9 against threshold 0.8 with >=
\* routes to "END" and score 0.5 routes to the else target.
C16_MatchesWhenOpHolds ==
    Evaluated =>
        /\ LastOp.err = "none"
        /\ LastOp.goto \in {S_END, S_ELSE}
        /\ (Kind(LeftValue) = "number" /\ Kind(RightValue) = "number")
              => (LastOp.goto = S_END
                     <=> NumHolds(BranchOp, Tenths(LeftValue), Tenths(RightValue)))
        /\ (Kind(LeftValue) = "str" /\ LeftValue = RightValue)
              => (LastOp.goto = S_END <=> BranchOp \in {"==", ">=", "<="})
        /\ (/\ config[1].branches[1].value = T_score
            /\ config[1].branches[1].condition.compare_to = T_threshold
            /\ BranchOp = ">=")
              => LastOp.goto = IF bank.v[S_score] = VFloat(9) THEN S_END ELSE S_ELSE

\* score 0.9 >= threshold 0.8 was routed to "END"
C16_Witness ==
    /\ Evaluated
    /\ config[1].branches[1].value = T_score
    /\ config[1].branches[1].condition.compare_to = T_threshold
    /\ BranchOp = ">="
    /\ bank.v[S_score] = VFloat(9)
    /\ LastOp.goto = S_END

\* a number against a string, a mapping or null, a string against a mapping, ...
Incompatible == Kind(LeftValue) # Kind(RightValue)

Unsupported(node) ==
    {j \in 1..Len(node.branches) :
        /\ node.branches[j].condition.kind = "compare"
        /\ node.branches[j].condition.op \notin ComparatorNames}

VisitedNode(i) == config.flow[trace[i].index + 1]

VisitedUnsupported(i) ==
    /\ trace[i].type = "conditional"
    /\ Unsupported(VisitedNode(i)) # {}

\* the visit ended the run with the engine's routing error
RoutingErrorAt(i) ==
    /\ trace[i].status = "raised"
    /\ i = Len(trace)
    /\ phase = "raised"
    /\ error = "WorkflowExecutionError"

\* C18 (as stated): evaluating a conditional node that contains a
\* comparator branch with an unsupported operator raises the routing error
\* and selects no target.
C18_UnsupportedAlwaysRaises ==
    \A i \in 1..Len(trace) : VisitedUnsupported(i) => RoutingErrorAt(i)

\* C18 (amended): a conditional node raises the routing error
\* (ConditionalEvaluationError, raised by the engine as
\* WorkflowExecutionError) when evaluation reaches a comparator branch with
\* an unsupported operator; a branch declared before it that matches is
\* taken instead and the unsupported branch is never looked at.
C18_UnsupportedRaisesWhenReached ==
    \A i \in 1..Len(trace) :
        VisitedUnsupported(i) =>
            LET node == VisitedNode(i)
                first == Min(Unsupported(node))
            IN  IF \E j \in 1..(first - 1) : node.branches[j].condition.kind = "none"
                THEN /\ trace[i].status = "routed"
                     /\ trace[i].goto
                           = node.branches[Min({j \in 1..(first - 1) :
                                 node.branches[j].condition.kind = "none"})].goto
                ELSE RoutingErrorAt(i)

\* a run ended at a conditional whose first branch has the operator "contains"
C18_Witness ==
    /\ trace # <<>>
    /\ VisitedUnsupported(Len(trace))
    /\ Unsupported(VisitedNode(Len(trace))) = {1}
    /\ RoutingErrorAt(Len(trace))
    /\ calls = 1


(***************************************************************************)
(* Restricted expressions on their own: evaluate_python_expression is      *)
(* applied to expressions over value, vars and store, one after the other  *)
(* on the same bank and document.                                          *)
(***************************************************************************)
MaxEvals == 2

\* "value <op> 1"
ValueAgainstOne(op) == S_value \o <<" ">> \o OpText(op) \o <<" ", "1">>

\* expressions whose result is an int, None or a str, never a boolean
NotBooleanExpressions == {<<"N", "o", "n", "e">>, <<"1">>, <<"v", "a", "r", "s", "[", "'", "c",
    "o", "u", "n", "t", "'", "]">>, <<"s", "t", "o", "r", "e", "[", "'", "k", "'", "]">>}

ReadingExpressions ==
    {<<"T", "r", "u", "e">>, <<"F", "a", "l", "s", "e">>, <<"v", "a", "r", "s", "[", "'", "k",
        "'", "]", " ", "=", "=", " ", "5">>, <<"{", "{", "c", "o", "u", "n", "t", "}", "}",
        " ", ">", "=", " ", "1">>, <<"{", "{", "c", "o", "u", "n", "t", "+", "+", "}", "}",
        " ", "=", "=", " ", "1">>}

S_store_pop_k == <<"s", "t", "o", "r", "e", ".", "p", "o", "p", "(", "'", "k", "'", ")", " ",
    "=", "=", " ", "1">>

S_store_pop_t == <<"s", "t", "o", "r", "e", ".", "p", "o", "p", "(", "'", "t", "'", ")">>

S_nested_pop == <<"v", "a", "r", "s", "[", "'", "n", "'", "]", ".", "p", "o", "p", "(", "'",
    "k", "'", ")", " ", "=", "=", " ", "2">>

S_vars_pop == <<"v", "a", "r", "s", ".", "p", "o", "p", "(", "'", "k", "'", ")", " ", "=", "=",
    " ", "5">>

CallingExpressions == {S_store_pop_k, S_store_pop_t, S_nested_pop, S_vars_pop}

\* the (expression, value) pairs evaluated
PythonCases ==
    ({ValueAgainstOne(op) : op \in ComparatorNames} \X {VInt(1), VStr(<<"0", ".", "5">>)})
        \cup ({S_value} \X {VBool(TRUE), VBool(FALSE), VInt(1)})
        \cup ((NotBooleanExpressions \cup ReadingExpressions \cup CallingExpressions) \X {None})

PythonBanks ==
    {VMap((S_count :> VInt(c)) @@ (<<"k">> :> VStr(<<"5">>))
          @@ (<<"n">> :> VMap(<<"k">> :> VInt(2)))) : c \in {1, 0}}

PythonDoc == VMap((<<"k">> :> VInt(1)) @@ (<<"t">> :> VBool(TRUE)))

InitPython ==
    /\ doc = PythonDoc
    /\ bank \in PythonBanks
    /\ config = <<>>
    /\ current = 0
    /\ phase = "idle"
    /\ error = "none"
    /\ trace = <<>>
    /\ calls = 0
    /\ log = <<>>

EvaluatePython(expression, value) ==
    /\ Len(log) < MaxEvals
    /\ LET r == evaluate_python_expression(expression, value, bank, doc)
       IN  /\ bank' = r.vars
           /\ doc' = r.doc
           /\ log' = Append(log, [op |-> "evaluate_python_expression",
                                  expression |-> expression, value |-> value,
                                  err |-> r.err, val |-> r.val, before |-> doc,
                                  bank_before |-> bank])
    /\ UNCHANGED <<config, current, phase, error, trace, calls>>

NextPython == \E c \in PythonCases : EvaluatePython(c[1], c[2])

SpecPython == InitPython /\ [][NextPython]_vars

\* C19: evaluate_python_expression returns the boolean the expression
\* evaluates to over value, vars and store ("value <op> 1" is the comparison
\* of the numeric-coerced value with 1, "True" and "False" are themselves,
\* "value" is a boolean value itself, vars['k'] is the coerced bank value),
\* and raises TemplateError whenever the result is not a boolean.
C19_BooleanOrTemplateError ==
    (log # <<>> /\ LastOp.op = "evaluate_python_expression") =>
        /\ \A op \in ComparatorNames :
              LastOp.expression = ValueAgainstOne(op) =>
                  /\ LastOp.err = "none"
                  /\ LastOp.val = NumHolds(op, Tenths(_coerce_numeric(LastOp.value)), 10)
        /\ LastOp.expression = <<"T", "r", "u", "e">> => LastOp.err = "none" /\ LastOp.val = TRUE
        /\ LastOp.expression = <<"F", "a", "l", "s",
            "e">> => LastOp.err = "none" /\ LastOp.val = FALSE
        /\ LastOp.expression = <<"v", "a", "r", "s", "[", "'", "k", "'", "]", " ", "=", "=",
            " ", "5">> =>
              /\ LastOp.err = "none"
              /\ LastOp.val = (_coerce_numeric(LastOp.bank_before.v[<<"k">>]) = VInt(5))
        /\ LastOp.expression = <<"{", "{", "c", "o", "u", "n", "t", "}", "}", " ", ">", "=",
            " ", "1">> =>
              /\ LastOp.err = "none"
              /\ LastOp.val = (LastOp.bank_before.v[S_count].v >= 1)
        /\ LastOp.expression = S_value =>
              IF LastOp.value.t = "bool"
              THEN LastOp.err = "none" /\ LastOp.val = LastOp.value.v
              ELSE LastOp.err = "TemplateError"
        /\ LastOp.expression \in NotBooleanExpressions => LastOp.err = "TemplateError"

\* "1" raised, and then "value >= 1" with value "0.5" returned False
C19_Witness ==
    /\ Len(log) = 2
    /\ log[1].expression = <<"1">> /\ log[1].err = "TemplateError"
    /\ log[2].expression = ValueAgainstOne(">=") /\ log[2].value = VStr(<<"0", ".", "5">>)
    /\ log[2].err = "none" /\ log[2].val = FALSE

\* C20: an evaluation leaves the document as it was, and the bank as the
\* rendering of the expression's placeholders left it.
C20_EvaluationChangesNothing ==
    (log # <<>> /\ LastOp.op = "evaluate_python_expression") =>
        /\ doc = LastOp.before
        /\ bank = render_string(LastOp.expression, LastOp.bank_before, LastOp.before).vars


(***************************************************************************)
(* The operand resolver on its own: _resolve_operand is applied to         *)
(* rendered strings that name bank paths, document paths, literals and     *)
(* plain text, over banks and documents that share some names.             *)
(***************************************************************************)
MaxResolves == 2

OperandTexts ==
    {S_count, S_n_k, <<"n", ".", "q">>, <<"a", ".", "b">>, <<"a", ".", "c">>, <<" ", "a", " ",
        ".", " ", "b", " ">>, <<"t">>, S_true, <<"T", "r", "u", "e">>, S_false, S_none,
     <<"N", "o", "n", "e">>, <<"1", "3">>, <<"-", "3">>, <<"1", ".", "5">>, <<"a", "b", "c">>, <<>>}

OperandBanks ==
    {VMap((S_count :> VInt(1)) @@ (<<"n">> :> VMap(<<"k">> :> VInt(2))) @@ (<<"t">> :> VStr(<<"b",
        "a", "n", "k">>))),
     VMap((S_count :> VInt(1)) @@ (S_true :> VInt(5)) @@ (<<"1", "3">> :> VStr(<<"t", "h", "i",
         "r", "t", "e", "e", "n">>)))}

OperandDocs ==
    {VMap((<<"a">> :> VMap(<<"b">> :> VInt(3))) @@ (<<"t">> :> VStr(<<"d", "o",
        "c">>)) @@ (S_count :> VInt(9))),
     VMap((S_false :> VInt(0)) @@ (<<"n">> :> VMap(<<"q">> :> None)))}

InitOperand ==
    /\ doc \in OperandDocs
    /\ bank \in OperandBanks
    /\ config = <<>>
    /\ current = 0
    /\ phase = "idle"
    /\ error = "none"
    /\ trace = <<>>
    /\ calls = 0
    /\ log = <<>>

ResolveOperand(text) ==
    /\ Len(log) < MaxResolves
    /\ LET r == _resolve_operand(VStr(text), bank, doc)
       IN  log' = Append(log, [op |-> "_resolve_operand", text |-> text, err |-> r.err,
                               val |-> r.val, before |-> doc, bank_before |-> bank])
    /\ UNCHANGED <<doc, bank, config, current, phase, error, trace, calls>>

NextOperand == \E text \in OperandTexts : ResolveOperand(text)

SpecOperand == InitOperand /\ [][NextOperand]_vars

\* the value a text denotes as a literal: a boolean, null, an integer or a
\* float; <<>> when the text is no literal
LiteralOf(text) ==
    IF Lower(text) = S_true THEN <<VBool(TRUE)>>
    ELSE IF Lower(text) = S_false THEN <<VBool(FALSE)>>
    ELSE IF Lower(text) = S_none THEN <<None>>
    ELSE IF IsFloatText(text) THEN <<ParseFloat(text)>>
    ELSE IF IsIntText(text) THEN <<ParseInt(text)>>
    ELSE <<>>

Resolved == log # <<>> /\ LastOp.op = "_resolve_operand"

\* C21: the operand resolver returns the bank value when the text is a
\* dotted path of the bank; otherwise the document value when it is a path
\* of the document; otherwise the literal it denotes ("none" giving null);
\* otherwise the text itself.
C21_ResolverPrecedence ==
    Resolved =>
        LET inBank == _resolve_mapping_path(LastOp.bank_before, LastOp.text)
            inDoc == resolve_path(LastOp.before, LastOp.text)
        IN  /\ LastOp.err = "none"
            /\ LastOp.val = IF inBank.err = "none" THEN inBank.val
                            ELSE IF inDoc.err = "none" THEN inDoc.val
                            ELSE IF LiteralOf(LastOp.text) # <<>> THEN LiteralOf(LastOp.text)[1]
                            ELSE VStr(LastOp.text)


(***************************************************************************)
(* The placeholder forms: render_string on templates of one placeholder,   *)
(* bare, between blanks and after literal text, the placeholder being a    *)
(* bank key, a vars. or store. path that resolves or not, a literal or an  *)
(* unknown name, and on a template of two placeholders.                    *)
(***************************************************************************)
Framed(pre, expr, suf) == pre \o S_open \o expr \o S_shut \o suf

PathExprs == {<<"v", "a", "r", "s", ".", "n", ".", "k">>, <<"v", "a", "r", "s", ".", "n", ".",
    "q">>, <<"v", "a", "r", "s", ".", "m", "i", "s", "s", "i", "n", "g">>, <<"s", "t", "o",
    "r", "e", ".", "a", ".", "b">>, <<"s", "t", "o", "r", "e", ".", "a", ".", "c">>, <<"s",
    "t", "o", "r", "e", ".", "t", ".", "x">>}

NameExprs == {S_count, S_flag, <<"z">>, <<"s">>, <<"n">>, <<"m", "i", "s", "s", "i", "n",
    "g">>, S_n_k}

LiteralExprs == {S_true, S_false, S_none, <<"1", "2">>, <<"-", "3">>, <<"1", ".", "5">>}

FramedExprs == {S_count, S_flag, <<"z">>, <<"s">>, <<"n">>, <<"m", "i", "s", "s", "i", "n", "g">>}

Frames == {<<<<" ">>, <<" ">>>>, <<<<"n", "=">>, <<>>>>}

S_two_placeholders == <<"{", "{", "c", "o", "u", "n", "t", "}", "}", "-", "{", "{", "f", "l",
    "a", "g", "}", "}">>

FormTemplates ==
    {Framed(<<>>, e, <<>>) : e \in PathExprs \cup NameExprs \cup LiteralExprs}
        \cup {Framed(f[1], e, f[2]) : f \in Frames, e \in FramedExprs}
        \cup {S_two_placeholders}

FormBanks ==
    {VMap((S_count :> VInt(1)) @@ (S_flag :> VBool(TRUE)) @@ (<<"z">> :> None)
          @@ (<<"s">> :> VStr(<<"x">>)) @@ (<<"n">> :> VMap(<<"k">> :> VInt(2)))),
     VMap((S_count :> VInt(1)) @@ (S_flag :> VBool(FALSE)) @@ (<<"z">> :> None)
          @@ (<<"s">> :> VStr(<<"x">>)) @@ (<<"n">> :> VMap(<<"k">> :> VInt(2)))
          @@ (S_true :> VInt(5)) @@ (<<"1", "2">> :> VStr(<<"t", "w", "e", "l", "v", "e">>)))}

FormDoc == VMap((<<"a">> :> VMap(<<"b">> :> VInt(3))) @@ (<<"t">> :> VStr(<<"h", "e", "y">>)))

InitForms ==
    /\ doc = FormDoc
    /\ bank \in FormBanks
    /\ config = <<>>
    /\ current = 0
    /\ phase = "idle"
    /\ error = "none"
    /\ trace = <<>>
    /\ calls = 0
    /\ log = <<>>

NextForms == \E template \in FormTemplates : Render(template)

SpecForms == InitForms /\ [][NextForms]_vars

Rendered == log # <<>> /\ LastOp.op = "render_string"

\* the placeholder of a rendered template and the text around it
RenderedAs(pre, expr, suf) == Rendered /\ LastOp.template = Framed(pre, expr, suf)

AllFrames == Frames \cup {<<<<>>, <<>>>>}

\* a vars. or store. placeholder whose path has an absent segment
AbsentPath(expr) ==
    \/ /\ StartsWith(expr, S_vars_dot)
       /\ resolve_path(LastOp.bank_before, SubSeq(expr, 6, Len(expr))).err # "none"
    \/ /\ StartsWith(expr, S_store_dot)
       /\ resolve_path(LastOp.before, SubSeq(expr, 7, Len(expr))).err # "none"

\* a placeholder of none of the supported forms
UnknownForm(expr) ==
    /\ ~StartsWith(expr, S_vars_dot) /\ ~StartsWith(expr, S_store_dot)
    /\ ~StartsWith(expr, S_plusplus) /\ ~EndsWith(expr, S_plusplus)
    /\ ~Has(LastOp.bank_before, expr)
    /\ LiteralOf(expr) = <<>>

\* C22: rendering raises TemplateError when the placeholder is of none of
\* the supported forms or names a bank or document path with an absent
\* segment, whatever text stands around it; nothing is substituted.
C22_UnresolvedRaises ==
    \A f \in AllFrames, expr \in PathExprs \cup NameExprs \cup LiteralExprs :
        (RenderedAs(f[1], expr, f[2]) /\ (AbsentPath(expr) \/ UnknownForm(expr)))
            => LastOp.err = "TemplateError" /\ bank = LastOp.bank_before

\* "{{vars.n.q}}" raised, and then "n={{missing}}" raised
C22_Witness ==
    /\ Len(log) = 2
    /\ log[1].template = Framed(<<>>, <<"v", "a", "r", "s", ".", "n", ".", "q">>,
        <<>>) /\ log[1].err = "TemplateError"
    /\ log[2].template = Framed(<<"n", "=">>, <<"m", "i", "s", "s", "i", "n", "g">>,
        <<>>) /\ log[2].err = "TemplateError"

\* C23: a placeholder that is no increment and no vars. or store. path
\* renders as the value of the bank key of that name when there is one, and
\* otherwise as the literal it denotes: true and false the booleans, none
\* null, numeric text the integer or float.
C23_LiteralFallback ==
    \A expr \in NameExprs \cup LiteralExprs :
        RenderedAs(<<>>, expr, <<>>) =>
            IF Has(LastOp.bank_before, expr)
            THEN LastOp.err = "none" /\ LastOp.val = LastOp.bank_before.v[expr]
            ELSE LiteralOf(expr) # <<>> =>
                     LastOp.err = "none" /\ LastOp.val = LiteralOf(expr)[1]

\* the value of the placeholder, by the form it has
ValueOf(expr) == _evaluate_expression(expr, LastOp.bank_before, LastOp.before).val

\* C24 as stated: the native value exactly when nothing at all stands around
\* the placeholder, and otherwise the text with the placeholder replaced by
\* the stringified value.
C24_NativeOnlyWhenBare ==
    /\ \A f \in AllFrames, expr \in PathExprs \cup NameExprs \cup LiteralExprs :
          (RenderedAs(f[1], expr, f[2]) /\ LastOp.err = "none") =>
              LastOp.val = IF f[1] = <<>> /\ f[2] = <<>> THEN ValueOf(expr)
                           ELSE VStr(f[1] \o _stringify(ValueOf(expr)) \o f[2])
    /\ (Rendered /\ LastOp.template = S_two_placeholders) =>
          LastOp.val = VStr(IntToStr(LastOp.bank_before.v[S_count].v) \o <<"-">>
                            \o (IF LastOp.bank_before.v[S_flag].v THEN S_true ELSE S_false))

\* C24: render_string returns the placeholder's value with its native type
\* exactly when the template is one placeholder with nothing but blanks
\* around it; with other text around it, or with several placeholders, it
\* returns the text with each placeholder replaced by the stringified value.
C24_NativeWhenOnlyBlanksAround ==
    /\ \A f \in AllFrames, expr \in PathExprs \cup NameExprs \cup LiteralExprs :
          (RenderedAs(f[1], expr, f[2]) /\ LastOp.err = "none") =>
              LastOp.val = IF Strip(f[1]) = <<>> /\ Strip(f[2]) = <<>> THEN ValueOf(expr)
                           ELSE VStr(f[1] \o _stringify(ValueOf(expr)) \o f[2])
    /\ (Rendered /\ LastOp.template = S_two_placeholders) =>
          LastOp.val = VStr(IntToStr(LastOp.bank_before.v[S_count].v) \o <<"-">>
                            \o (IF LastOp.bank_before.v[S_flag].v THEN S_true ELSE S_false))

\* " {{count}} " gave the integer 1, and then "n={{flag}}" gave "n=true"
C24_Witness ==
    /\ Len(log) = 2
    /\ log[1].template = Framed(<<" ">>, S_count, <<" ">>) /\ log[1].val = VInt(1)
    /\ log[2].template = Framed(<<"n", "=">>, S_flag, <<>>) /\ log[2].val = VStr(<<"n", "=",
        "t", "r", "u", "e">>)


(***************************************************************************)
(* Skipped steps: execute_node over the nodes of SpecExec, among them one  *)
(* that sets the pointer variable vars.pointer beside its primary output.  *)
(***************************************************************************)
Skipped == log # <<>> /\ LastOp.op = "execute_node" /\ LastOp.status = "skipped"

\* the positions of the output keys "vars.<n>"
VarsOutputs == {i \in 1..Len(config[1].outputs) : StartsWith(config[1].outputs[i][1], S_vars_dot)}

VarOf(i) == AfterVarsDot(config[1].outputs[i][1])

\* the template of output i as the skipped step found bank and document
RenderedOutput(i) ==
    render_string(config[1].outputs[i][2], LastOp.bank_before, LastOp.before).val

SkipLeavesDocument == ~LastOp.invoked /\ doc = LastOp.before

SkipSetsVars ==
    \A i \in VarsOutputs : Has(bank, VarOf(i)) /\ bank.v[VarOf(i)] = RenderedOutput(i)

AfterOriginalRun == Len(log) = 2 /\ log[1].status = "completed"

C26_SkipIffTruthy ==
    (log # <<>> /\ LastOp.op = "execute_node") =>
        LET p == PrimaryOutput(config[1], LastOp.bank_before, LastOp.before)
        IN  /\ ~LastOp.invoked
                <=> (config[1].skip_if_output_present /\ p.exists /\ Truthy(p.val))
            /\ ~p.exists =>
                  LastOp.invoked /\ LastOp.err \notin {"PathResolutionError", "KeyError"}

\* with the flag set, the capability was invoked while the document held 0
\* at the primary path, and was not invoked again once a result was stored
C26_Witness ==
    /\ Len(log) = 2
    /\ config[1].skip_if_output_present
    /\ log[1].invoked
    /\ PrimaryOutput(config[1], log[1].bank_before, log[1].before).exists
    /\ PrimaryOutput(config[1], log[1].bank_before, log[1].before).val = VInt(0)
    /\ ~log[2].invoked /\ log[2].status = "skipped"


(***************************************************************************)
(* Input rendering: execute_node on nodes of one input, whose template     *)
(* renders to a document path that resolves or not, to a number, to plain  *)
(* text or to the empty string.                                            *)
(***************************************************************************)
S_note == <<"n", "o", "t", "e">>

InputTemplates ==
    {<<"i", "n", "s", "t", "r", "u", "c", "t", "i", "o", "n">>, <<"a", ".", "b">>, <<"a", ".",
        "c">>, <<"{", "{", "l", "a", "t", "e", "s", "t", "}", "}">>, <<"{", "{", "c", "o", "u",
        "n", "t", "}", "}">>, <<"p", "l", "a", "i", "n", " ", "t", "e", "x", "t">>, <<"x", "{",
        "{", "c", "o", "u", "n", "t", "}", "}">>,
     Framed(<<>>, S_note, <<>>), <<>>}

InputNodes ==
    {[id |-> S_evaluate, type |-> "execute", node |-> "stub_nodes.SimpleEvaluator",
      inputs |-> << <<S_value, t>> >>, outputs |-> << <<S_result, S_evaluation_path>> >>,
      skip_if_output_present |-> FALSE] : t \in InputTemplates}

InputDocs ==
    {VMap((<<"i", "n", "s", "t", "r", "u", "c", "t", "i", "o", "n">> :> VStr(<<"D",
        "o">>)) @@ (<<"a">> :> VMap(<<"b">> :> VInt(3)))
          @@ (<<"o", "r", "i", "g", "i", "n", "a", "l">> :> VStr(<<"c", "o", "d", "e">>))),
     VMap(<<"x", "1">> :> VList(<<VInt(1)>>))}

InputBank == VMap((S_latest :> VStr(<<"o", "r", "i", "g", "i", "n", "a",
    "l">>)) @@ (S_count :> VInt(1)) @@ (S_note :> VStr(<<>>)))

InputOutcomes ==
    {[kind |-> "return", result |-> VMap(S_result :> VStr(<<"o", "k">>)), bump |-> <<>>],
     [kind |-> "not_mapping", result |-> None, bump |-> <<>>],
     [kind |-> "raise", result |-> None, bump |-> <<>>]}

InitInputs ==
    /\ doc \in InputDocs
    /\ bank = InputBank
    /\ config \in {<<n>> : n \in InputNodes}
    /\ current = 0
    /\ phase = "idle"
    /\ error = "none"
    /\ trace = <<>>
    /\ calls = 0
    /\ log = <<>>

NextInputs == \E outcome \in InputOutcomes : RunNode(outcome)

SpecInputs == InitInputs /\ [][NextInputs]_vars

\* the node's input template as bank and document make it
RenderedInput == render_string(config[1].inputs[1][2], LastOp.bank_before, LastOp.before)

\* C27: the value passed to the capability for an input is the document
\* value at the rendered string when that string resolves as a document
\* path, and the rendered value itself in every other case; the capability
\* is invoked whatever the rendered input is.
C27_InputResolvedOrLiteral ==
    (log # <<>> /\ LastOp.op = "execute_node" /\ RenderedInput.err = "none") =>
        LET rendered == RenderedInput.val
            found == IF rendered.t = "str" /\ rendered.v # <<>>
                     THEN resolve_path(LastOp.before, rendered.v)
                     ELSE [err |-> "PathResolutionError", val |-> None]
        IN  /\ LastOp.invoked
            /\ LastOp.inputs.v[config[1].inputs[1][1]]
                  = IF found.err = "none" THEN found.val ELSE rendered

\* ---------------------------------------------------------------------
\* Abort on failure (engine.py 39-62, executor.py 88-95)
\* ---------------------------------------------------------------------

\* the last visit failed: its capability raised or returned no mapping, the
\* node's execution or evaluation raised, or it routed to an unknown node
Failed ==
    /\ trace # <<>>
    /\ \/ Last(trace).capability \in {"raise", "not_mapping"}
       \/ Last(trace).status = "raised"
       \/ Last(trace).status = "routed" /\ Last(trace).goto \notin FlowIds \cup {S_END}

Aborted == phase = "raised"

\* a turn of the loop that fails leaves the run aborted at the failing node,
\* and an aborted run takes no further step
C28_AbortStep ==
    /\ ~Aborted
    /\ (trace' # trace /\ Failed') =>
          /\ Aborted'
          /\ error' # "none"
          /\ current' = current
          /\ Last(trace').id = config.flow[current + 1].id

\* C28: when a capability raises, or a template, routing or execution error
\* occurs at a node, the run aborts: the failing capability is not invoked
\* again and no later node of the flow is executed in that run.
C28_FailureAborts == [][C28_AbortStep]_vars

\* a capability raised at a node that has a successor: the run is aborted
\* with one invocation of that capability and the successor unvisited
C28_Witness ==
    /\ Aborted
    /\ Failed
    /\ Last(trace).capability = "raise"
    /\ error = "CapabilityError"
    /\ calls = Len(trace)
    /\ current + 1 < Len(config.flow)

\* a template error at a conditional aborted the run
C28_TemplateWitness ==
    /\ Aborted
    /\ Failed
    /\ error = "TemplateError"
    /\ Last(trace).type = "conditional"

(***************************************************************************)
(* Runs over one shared document.  execute_node is cut at its one await,   *)
(* the call of the capability (executor.py 88-92): what a run does between *)
(* two suspensions is one step, and the steps of the runs interleave, as   *)
(* coroutines of one event loop do.  bank, current, phase, error and calls *)
(* are kept per run; calls[r] is the set of nodes of run r whose           *)
(* capability has been called and has not completed; trace lists what was  *)
(* done to the document's "vars" key; log lists what the capabilities      *)
(* found under it.  The capabilities modelled here read the document and   *)
(* do not write to it.                                                     *)
(***************************************************************************)
Runs == {1, 2}

\* execute_node up to the call of the capability: the skip check, the
\* capability's resolution, the inputs, and the bank bound under "vars"
Enter(node, bankv, context) ==
    LET quiet(e, status, b) == [err |-> e, status |-> status, vars |-> b, doc |-> context]
    IN  Bind(SkipCheck(node, bankv, context), LAMBDA skip :
          IF skip.err # "none" THEN quiet(skip.err, "raised", skip.vars)
          ELSE IF skip.skipped THEN quiet("none", "skipped", skip.vars)
          ELSE IF ResolveCapability(node.node) # "none"
          THEN quiet(ResolveCapability(node.node), "raised", skip.vars)
          ELSE Bind(InputsLoop(node.inputs, EmptyMap, skip.vars, context), LAMBDA ins :
            IF ins.err # "none" THEN quiet(ins.err, "raised", ins.vars)
            ELSE [err |-> "none", status |-> "invoked", vars |-> ins.vars,
                  doc |-> BindVars(context, ins.vars)]))

\* execute_node from the capability's completion on: "vars" removed, the
\* result reconciled into document and bank
Leave(node, bankv, context, outcome, now) ==
    IF outcome.kind = "raise"
    THEN [err |-> "CapabilityError", status |-> "raised", vars |-> bankv,
          doc |-> PopVars(context)]
    ELSE Bind(Reconcile(node, bankv, PopVars(context), outcome, now), LAMBDA rec :
           [err |-> rec.err, status |-> IF rec.err = "none" THEN "completed" ELSE "raised",
            vars |-> rec.vars, doc |-> rec.doc])

\* the capability was called without being awaited
Suspends_never(status) == FALSE

\* result = await executor_callable(...): the run is suspended at a node
\* whose capability was called, until the capability completes
Suspends(status) == status = "invoked"

Touch(run, index, event) == [run |-> run, index |-> index, event |-> event]

\* after the loop: the bank is merged into the document's "vars"
Merged(run, st) ==
    Bind(MergeVars(st.doc, st.vars), LAMBDA m :
      [st EXCEPT !.doc = m.doc, !.error = m.err,
                 !.phase = IF m.err = "none" THEN "returned" ELSE "raised",
                 !.trace = Append(st.trace, Touch(run, st.current, "merge"))])

\* the while loop of execute_workflow from the state st of a run on, up to
\* the run's next suspension, its return or its failure
RECURSIVE RunOn(_, _, _)
RunOn(flow, run, st) ==
    LET raised(e, b) == [st EXCEPT !.phase = "raised", !.error = e, !.vars = b]
    IN  IF st.current >= Len(flow) THEN Merged(run, st)
        ELSE Bind(flow[st.current + 1], LAMBDA node :
          IF node.type = "execute"
          THEN Bind(Enter(node, st.vars, st.doc), LAMBDA e :
                 IF e.err # "none" THEN raised(e.err, e.vars)
                 ELSE IF e.status = "skipped"
                 THEN RunOn(flow, run, [st EXCEPT !.vars = e.vars, !.current = st.current + 1])
                 ELSE Bind([st EXCEPT !.vars = e.vars, !.doc = e.doc,
                                      !.calls = st.calls \cup {st.current},
                                      !.trace = Append(st.trace,
                                                       Touch(run, st.current, "bind"))],
                           LAMBDA called :
                             IF Suspends(e.status)
                             THEN [called EXCEPT !.phase = "awaiting"]
                             ELSE RunOn(flow, run,
                                        [called EXCEPT !.current = st.current + 1])))
          ELSE Bind(evaluate_conditional(node, st.vars, st.doc), LAMBDA r :
                 IF r.err # "none"
                 THEN raised(IF r.err = "ConditionalEvaluationError"
                             THEN "WorkflowExecutionError" ELSE r.err, r.vars)
                 ELSE IF r.goto = S_END THEN Merged(run, [st EXCEPT !.vars = r.vars])
                 ELSE IF NodeIndex(flow, r.goto) = 0
                 THEN raised("WorkflowExecutionError", r.vars)
                 ELSE RunOn(flow, run, [st EXCEPT !.vars = r.vars,
                                                  !.current = NodeIndex(flow, r.goto) - 1])))

\* the state of run r, and the step that leaves it in state st
RunState(r) ==
    [current |-> current[r], vars |-> bank[r], doc |-> doc, calls |-> calls[r],
     error |-> error[r], phase |-> phase[r], trace |-> trace]

Becomes(r, st) ==
    /\ doc' = st.doc
    /\ trace' = st.trace
    /\ bank' = [bank EXCEPT ![r] = st.vars]
    /\ current' = [current EXCEPT ![r] = st.current]
    /\ calls' = [calls EXCEPT ![r] = st.calls]
    /\ error' = [error EXCEPT ![r] = st.error]
    /\ phase' = [phase EXCEPT ![r] = st.phase]

\* what is under the document's "vars" key
Bound(context) == IF Has(context, S_vars) THEN context.v[S_vars] ELSE None

\* the run whose bank was bound last and not removed since; 0 when the key
\* was removed or holds the mapping a returning run merged its bank into
Owner(events) ==
    IF events # <<>> /\ Last(events).event = "bind" THEN Last(events).run ELSE 0

\* execute_workflow is called for run r and runs to its first suspension
StartRun(r) ==
    /\ phase[r] = "idle"
    /\ LET r0 == _rehydrate_counters(doc, InitialBank(config, doc))
           st == [RunState(r) EXCEPT !.vars = r0.vars, !.current = 0]
       IN  IF r0.err # "none"
           THEN Becomes(r, [st EXCEPT !.phase = "raised", !.error = r0.err])
           ELSE Becomes(r, RunOn(config.flow, r, st))
    /\ UNCHANGED <<config, log>>

\* the capability of run r, in flight, reads context["vars"]
Observe(r) ==
    /\ phase[r] = "awaiting"
    /\ phase' = [phase EXCEPT ![r] = "looked"]
    /\ log' = Append(log, [op |-> "capability", run |-> r, index |-> current[r],
                           seen |-> Bound(doc), owner |-> Owner(trace), last |-> Last(trace),
                           banks |-> bank,
                           alone |-> \A q \in Runs \ {r} : phase[q] = "idle"])
    /\ UNCHANGED <<doc, bank, config, current, error, trace, calls>>

\* the capability of run r completes with an outcome and the run goes on to
\* its next suspension
Resume(r, outcome) ==
    /\ phase[r] \in {"awaiting", "looked"}
    /\ LET node == config.flow[current[r] + 1]
           l == Leave(node, bank[r], doc, outcome, Stamp(Len(trace) + 1))
           st == [RunState(r) EXCEPT !.vars = l.vars, !.doc = l.doc,
                                     !.calls = calls[r] \ {current[r]},
                                     !.trace = Append(trace, Touch(r, current[r], "pop"))]
       IN  IF l.err # "none"
           THEN Becomes(r, [st EXCEPT !.phase = "raised", !.error = l.err])
           ELSE Becomes(r, RunOn(config.flow, r, [st EXCEPT !.current = current[r] + 1]))
    /\ UNCHANGED <<config, log>>

SharedFlows ==
    {<<EvaluateNode>>, <<EvaluateNode, ImproveNode>>, <<ImproveNode, EvaluateNode>>,
     <<EvaluateNode, CheckNode(S_END, S_improve), ImproveNode>>,
     <<ImproveNode, CheckNode(S_END, S_improve)>>}

SharedOutcomes ==
    {[kind |-> "return", result |-> VMap(S_result :> VMap(K_x :> VInt(1))), bump |-> <<>>],
     [kind |-> "return", result |-> VMap(S_score :> VInt(9)), bump |-> <<>>],
     [kind |-> "raise", result |-> None, bump |-> <<>>]}

InitShared ==
    /\ doc = EmptyMap
    /\ config \in {[vars |-> EngineVars, flow |-> f] : f \in SharedFlows}
    /\ bank = [r \in Runs |-> EmptyMap]
    /\ current = [r \in Runs |-> 0]
    /\ phase = [r \in Runs |-> "idle"]
    /\ error = [r \in Runs |-> "none"]
    /\ trace = <<>>
    /\ calls = [r \in Runs |-> {}]
    /\ log = <<>>

NextShared ==
    \E r \in Runs :
        \/ StartRun(r)
        \/ Observe(r)
        \/ \E outcome \in SharedOutcomes : Resume(r, outcome)

SpecShared == InitShared /\ [][NextShared]_vars

InFlight(r) == phase[r] \in {"awaiting", "looked"}

\* the primary output of the i-th node of the flow (counted from 0) is in
\* the document d
Reconciled(i, d) == resolve_path(d, config.flow[i + 1].outputs[1][2]).err = "none"

C29_OneAtATime ==
    \A r \in Runs :
        /\ Cardinality(calls[r]) <= 1
        /\ InFlight(r) <=> calls[r] = {current[r]}
        /\ ~InFlight(r) => calls[r] = {}

\* a step in which a run with a node in flight moves its counter, changes
\* its nodes in flight or binds its bank begins with that node's completion,
\* and unless the run failed the node's output is in the document after it
C29_CompletesFirst ==
    \A r \in Runs :
        (/\ InFlight(r)
         /\ \/ current'[r] # current[r]
            \/ calls'[r] # calls[r]
            \/ \E i \in (Len(trace) + 1)..Len(trace') :
                  trace'[i].run = r /\ trace'[i].event = "bind")
            => /\ Len(trace') > Len(trace)
               /\ trace'[Len(trace) + 1] = Touch(r, current[r], "pop")
               /\ phase'[r] # "raised" => Reconciled(current[r], doc')

\* C29: within one run at most one node is in flight at any time: a
\* capability invocation is awaited to completion and its outputs are
\* reconciled into the document and the bank before the program counter
\* advances and before any other node starts.
C29_OneNodeInFlight == [](C29_OneAtATime) /\ [][C29_CompletesFirst]_vars

\* a run went from its first node, in flight, on to its second, in flight
C29_Witness ==
    \E r \in Runs :
        /\ InFlight(r)
        /\ current[r] = 1
        /\ \E i \in 1..Len(trace) : trace[i] = Touch(r, 0, "pop")
        /\ Last(trace) = Touch(r, 1, "bind")

\* the observations of the capabilities so far
Looks == {log[i] : i \in 1..Len(log)}

\* what a capability in flight finds under "vars" is the bank of the run
\* that bound its bank last, and nothing once any run has removed the key;
\* while no other run has started it is the bank of the capability's own run
C30_FindsLastBinding ==
    \A o \in Looks :
        /\ o.last.event = "bind" => o.seen = o.banks[o.last.run]
        /\ o.last.event = "pop" => o.seen = None
        /\ o.alone => o.last = Touch(o.run, o.index, "bind")

\* C30: two runs that share one document and interleave at capability
\* suspension points are unsafe: a capability of one run can find under the
\* document's "vars" key the other run's bank, or no bank at all, because
\* each run binds and removes that same key around its own invocation.
C30_SharedDocumentUnsafe ==
    /\ C30_FindsLastBinding
    /\ Owner(trace) \in Runs => Bound(doc) = bank[Owner(trace)]
    /\ (trace # <<>> /\ Last(trace).event = "pop") => Bound(doc) = None

\* one capability found the other run's bank, which differs from its own
\* run's, and one found no bank because the other run had removed the key
C30_Witness ==
    /\ \E o \in Looks :
          /\ o.owner \in Runs \ {o.run}
          /\ o.seen = o.banks[o.owner]
          /\ o.seen # o.banks[o.run]
    /\ \E o \in Looks :
          /\ o.last.event = "pop"
          /\ o.last.run # o.run
          /\ o.seen = None

(***************************************************************************)
(* The parents of a written path (store.py 33-57)                          *)
(***************************************************************************)
\* the last call was a write whose path splits into at least one segment
Wrote ==
    /\ log # <<>>
    /\ LastOp.op \in {"write_path", "write_with_metadata"}
    /\ SplitPathErr(LastOp.path) = "none"
    /\ _split_path(LastOp.path) # <<>>

\* what is in the document d at the first k segments of the last call's path
Segment(d, k) == ResolveParts(d, SubSeq(_split_path(LastOp.path), 1, k))

Intermediate == 1..(Len(_split_path(LastOp.path)) - 1)

\* a value that is not a mapping is at an intermediate segment of the path
BlockedIn(d) == \E k \in Intermediate : Segment(d, k).err = "none" /\ ~IsDict(Segment(d, k).val)

\* a value that is neither a mapping nor null is at an intermediate segment
BlockedByValueIn(d) ==
    \E k \in Intermediate :
        /\ Segment(d, k).err = "none"
        /\ ~IsDict(Segment(d, k).val)
        /\ Segment(d, k).val # None

ParentsAreMappings(d) ==
    \A k \in Intermediate : Segment(d, k).err = "none" /\ IsDict(Segment(d, k).val)

Annotated == Wrote /\ LastOp.op = "write_with_metadata" /\ LastOp.err = "none"

\* created_at and the provenance entries of the last call
Metadata == Update(VMap(S_created_at :> LastOp.created_at), LastOp.provenance)

\* what the document d holds beside the last call's path, under the key
\* "<last segment>_metadata" of the parent mapping
Sibling(d) ==
    LET parts == _split_path(LastOp.path)
    IN  ResolveParts(d, SubSeq(parts, 1, Len(parts) - 1)
                            \o <<parts[Len(parts)] \o S_metadata>>)

\* C32: write_with_metadata of a scalar to path p stores the scalar itself
\* at p and places the metadata (created_at plus the provenance entries)
\* under the sibling key "<last segment of p>_metadata" of the same parent
\* mapping; a mapping value instead receives the metadata as its own keys,
\* each where the value has no such key, and nothing is placed beside it.
C32_MetadataPlacement ==
    Annotated =>
        LET stored == resolve_path(doc, LastOp.path)
        IN  IF IsDict(LastOp.value)
            THEN /\ stored.err = "none" /\ IsDict(stored.val)
                 /\ DOMAIN stored.val.v = DOMAIN LastOp.value.v \cup DOMAIN Metadata.v
                 /\ \A k \in DOMAIN stored.val.v :
                       stored.val.v[k] = IF Has(LastOp.value, k) THEN LastOp.value.v[k]
                                         ELSE Metadata.v[k]
                 /\ Sibling(doc) = Sibling(LastOp.before)
            ELSE /\ stored = [err |-> "none", val |-> LastOp.value]
                 /\ Sibling(doc) = [err |-> "none", val |-> Metadata]

\* a scalar and then a mapping were written with provenance to "a.b"
C32_Witness ==
    /\ Len(log) = 2
    /\ Annotated
    /\ log[1].op = "write_with_metadata" /\ log[1].err = "none"
    /\ log[1].path = P_a_b /\ log[2].path = P_a_b_spaced
    /\ log[1].value = VInt(1) /\ IsDict(log[2].value)
    /\ log[1].provenance # EmptyMap /\ log[2].provenance # EmptyMap
    /\ Sibling(doc).err = "none"
    /\ Has(resolve_path(doc, P_a_b).val, S_instruction_key)

(***************************************************************************)
(* models.py: a JSON payload validated into a WorkflowConfig.  The payload *)
(* is a JSON value; a model object is a record of its fields, an absent    *)
(* optional field being None.  Every model forbids unknown keys            *)
(* (extra="forbid"), a required field must be present and every field     *)
(* must have its declared type, else validation raises ValidationError;    *)
(* the validators run on the fields that passed.                           *)
(***************************************************************************)
F_op == <<"o", "p">>

F_compare_to == <<"c", "o", "m", "p", "a", "r", "e", "_", "t", "o">>

F_python == <<"p", "y", "t", "h", "o", "n">>

F_condition == <<"c", "o", "n", "d", "i", "t", "i", "o", "n">>

F_goto == <<"g", "o", "t", "o">>

F_id == <<"i", "d">>

F_type == <<"t", "y", "p", "e">>

F_node == <<"n", "o", "d", "e">>

F_inputs == <<"i", "n", "p", "u", "t", "s">>

F_outputs == <<"o", "u", "t", "p", "u", "t", "s">>

F_skipIfOutputPresent == <<"s", "k", "i", "p", "I", "f", "O", "u", "t", "p", "u", "t", "P",
    "r", "e", "s", "e", "n", "t">>

F_skip_if_output_present == <<"s", "k", "i", "p", "_", "i", "f", "_", "o", "u", "t", "p", "u",
    "t", "_", "p", "r", "e", "s", "e", "n", "t">>

F_branches == <<"b", "r", "a", "n", "c", "h", "e", "s">>

F_else == <<"e", "l", "s", "e">>

F_else_goto == <<"e", "l", "s", "e", "_", "g", "o", "t", "o">>

F_name == <<"n", "a", "m", "e">>

F_code_type == <<"c", "o", "d", "e", "_", "t", "y", "p", "e">>

F_flow == <<"f", "l", "o", "w">>

T_execute == <<"e", "x", "e", "c", "u", "t", "e">>

T_conditional == <<"c", "o", "n", "d", "i", "t", "i", "o", "n", "a", "l">>

Invalid == [err |-> "ValidationError", val |-> None]

Valid(x) == [err |-> "none", val |-> x]

IsOptStr(x) == x.t \in {"str", "null"}

\* the value of the first of the names that the payload has, or the default
Field(raw, names, default) ==
    IF \E i \in 1..Len(names) : Has(raw, names[i])
    THEN raw.v[names[CHOOSE i \in 1..Len(names) :
                   Has(raw, names[i]) /\ \A j \in 1..(i - 1) : ~Has(raw, names[j])]]
    ELSE default

\* a validate_mode that lets a condition carry an expression and comparator
\* fields together
validate_mode_mixing(self) ==
    IF Truthy(self.python)
    THEN IF Strip(self.python.v) = <<>> THEN "ValueError" ELSE "none"
    ELSE IF self.op = None \/ self.compare_to = None THEN "ValueError" ELSE "none"

\* BranchCondition.validate_mode
validate_mode(self) ==
    LET has_comparison == self.op # None \/ self.compare_to # None
    IN  IF Truthy(self.python) /\ has_comparison THEN "ValueError"
        ELSE IF Truthy(self.python)
        THEN IF Strip(self.python.v) = <<>> THEN "ValueError" ELSE "none"
        ELSE IF self.op = None /\ self.compare_to = None THEN "ValueError"
        ELSE IF self.op = None \/ self.compare_to = None THEN "ValueError"
        ELSE "none"

\* BranchCondition.model_validate(raw)
BranchCondition(raw) ==
    IF \/ ~IsDict(raw)
       \/ ~(DOMAIN raw.v \subseteq {F_op, F_compare_to, F_python})
       \/ \E k \in DOMAIN raw.v : ~IsOptStr(raw.v[k])
    THEN Invalid
    ELSE Bind([op |-> Field(raw, <<F_op>>, None),
               compare_to |-> Field(raw, <<F_compare_to>>, None),
               python |-> Field(raw, <<F_python>>, None)],
              LAMBDA self : IF validate_mode(self) = "none" THEN Valid(self) ELSE Invalid)

\* ConditionalBranch.model_validate(raw), with validate_branch
ConditionalBranch(raw) ==
    IF \/ ~IsDict(raw)
       \/ ~(DOMAIN raw.v \subseteq {S_value, F_condition, F_goto})
       \/ ~Has(raw, F_goto) \/ ~IsStr(Field(raw, <<F_goto>>, None))
       \/ ~IsOptStr(Field(raw, <<S_value>>, None))
    THEN Invalid
    ELSE Bind(IF Field(raw, <<F_condition>>, None) = None THEN Valid(None)
              ELSE BranchCondition(raw.v[F_condition]),
              LAMBDA c :
                IF c.err # "none" THEN Invalid
                ELSE Bind([value |-> Field(raw, <<S_value>>, None), condition |-> c.val,
                           goto |-> raw.v[F_goto]],
                          LAMBDA self :
                            IF /\ self.condition # None
                               /\ ~(Truthy(self.value) \/ Truthy(self.condition.python))
                               /\ Truthy(self.condition.op) /\ ~Truthy(self.value)
                            THEN Invalid
                            ELSE Valid(self)))

\* BaseNode.validate_id on the payload's "id"
ValidId(raw) ==
    /\ Has(raw, F_id) /\ IsStr(raw.v[F_id])
    /\ raw.v[F_id].v # <<>> /\ Strip(raw.v[F_id].v) # <<>>

\* ExecuteNode.model_validate(raw), with validate_id and validate_node
ExecuteNode(raw) ==
    IF \/ ~(DOMAIN raw.v \subseteq {F_id, F_type, F_node, F_inputs, F_outputs,
                                    F_skipIfOutputPresent, F_skip_if_output_present})
       \/ ~ValidId(raw)
       \/ ~Has(raw, F_node) \/ ~IsStr(Field(raw, <<F_node>>, None))
       \/ ~IsDict(Field(raw, <<F_inputs>>, EmptyMap))
       \/ ~IsDict(Field(raw, <<F_outputs>>, EmptyMap))
       \/ Field(raw, <<F_skipIfOutputPresent, F_skip_if_output_present>>, VBool(FALSE)).t
              # "bool"
    THEN Invalid
    ELSE IF raw.v[F_node].v = <<>> \/ ~HasDot(raw.v[F_node].v) THEN Invalid
    ELSE Valid([id |-> raw.v[F_id], type |-> T_execute, node |-> raw.v[F_node],
                inputs |-> Field(raw, <<F_inputs>>, EmptyMap),
                outputs |-> Field(raw, <<F_outputs>>, EmptyMap),
                skip_if_output_present |->
                    Field(raw, <<F_skipIfOutputPresent, F_skip_if_output_present>>,
                          VBool(FALSE))])

\* ConditionalNode.model_validate(raw), with validate_id and validate_branches
ConditionalNode(raw) ==
    IF \/ ~(DOMAIN raw.v \subseteq {F_id, F_type, F_branches, F_else, F_else_goto})
       \/ ~ValidId(raw)
       \/ ~Has(raw, F_branches) \/ raw.v[F_branches].t # "list"
       \/ ~IsStr(Field(raw, <<F_else, F_else_goto>>, None))
    THEN Invalid
    ELSE Bind(raw.v[F_branches].v, LAMBDA items :
           IF \E i \in 1..Len(items) : ConditionalBranch(items[i]).err # "none"
           THEN Invalid
           ELSE IF items = <<>> THEN Invalid
           ELSE Valid([id |-> raw.v[F_id], type |-> T_conditional,
                       branches |-> [i \in 1..Len(items) |-> ConditionalBranch(items[i]).val],
                       else_goto |-> Field(raw, <<F_else, F_else_goto>>, None)]))

\* WorkflowNode: the union discriminated by "type"
WorkflowNode(raw) ==
    IF ~IsDict(raw) \/ ~Has(raw, F_type) THEN Invalid
    ELSE IF raw.v[F_type] = VStr(T_execute) THEN ExecuteNode(raw)
    ELSE IF raw.v[F_type] = VStr(T_conditional) THEN ConditionalNode(raw)
    ELSE Invalid

\* WorkflowConfig.model_validate(raw), with validate_unique_ids
WorkflowConfig(raw) ==
    IF \/ ~IsDict(raw)
       \/ ~(DOMAIN raw.v \subseteq {F_name, F_code_type, S_vars, F_flow})
       \/ ~Has(raw, F_name) \/ ~IsStr(Field(raw, <<F_name>>, None))
       \/ ~Has(raw, F_code_type) \/ ~IsStr(Field(raw, <<F_code_type>>, None))
       \/ ~IsDict(Field(raw, <<S_vars>>, EmptyMap))
       \/ ~Has(raw, F_flow) \/ Field(raw, <<F_flow>>, None).t # "list"
    THEN Invalid
    ELSE Bind(raw.v[F_flow].v, LAMBDA items :
           IF \E i \in 1..Len(items) : WorkflowNode(items[i]).err # "none" THEN Invalid
           ELSE Bind([i \in 1..Len(items) |-> WorkflowNode(items[i]).val], LAMBDA flow :
             IF \E i, j \in 1..Len(flow) : i < j /\ flow[i].id = flow[j].id THEN Invalid
             ELSE IF flow = <<>> THEN Invalid
             ELSE Valid([name |-> raw.v[F_name], code_type |-> raw.v[F_code_type],
                         vars |-> Field(raw, <<S_vars>>, EmptyMap), flow |-> flow])))

\* a JSON object of the entries whose value is not Missing
Missing == [t |-> "missing", v |-> 0]

Obj(f) == VMap([k \in {j \in DOMAIN f : f[j] # Missing} |-> f[k]])

RawConditions ==
    {Obj((F_op :> o) @@ (F_compare_to :> c) @@ (F_python :> p)) :
        o \in {Missing, VStr(<<">", "=">>)}, c \in {Missing, VStr(<<"1">>)},
        p \in {Missing, None, VStr(<<>>), VStr(<<" ">>), VStr(<<"x">>)}}
      \cup {Obj((F_python :> VStr(<<"x">>)) @@ (S_note :> VStr(<<"n">>)))}

RawBranches ==
    {Obj((S_value :> v) @@ (F_condition :> c) @@ (F_goto :> VStr(S_END))) :
        v \in {Missing, VStr(<<"v">>)}, c \in {Missing} \cup RawConditions}
      \cup {Obj(S_value :> VStr(<<"v">>)),
            Obj((F_goto :> VStr(S_END)) @@ (S_note :> VStr(<<"n">>)))}

RawExecuteNodes ==
    {Obj((F_id :> i) @@ (F_type :> VStr(T_execute)) @@ (F_node :> n)) :
        i \in {Missing, VStr(<<"a">>), VStr(<<"b">>), VStr(<<" ">>)}, n \in {VStr(<<"m", ".",
            "f">>), VStr(<<"m", "f">>)}}
      \cup {Obj((F_id :> VStr(<<"a">>)) @@ (F_type :> VStr(T_execute)) @@ (F_node :> VStr(<<"m",
          ".", "f">>))
                @@ (F_branches :> VList(<<>>)))}

RawConditionalNodes ==
    {Obj((F_id :> i) @@ (F_type :> VStr(T_conditional)) @@ (F_branches :> bs)
         @@ (F_else :> VStr(S_END))) :
        i \in {VStr(<<"a">>), VStr(<<"c">>)},
        bs \in {Missing, VList(<<>>)} \cup {VList(<<b>>) : b \in RawBranches}}
      \cup {Obj((F_id :> VStr(<<"c">>)) @@ (F_type :> VStr(T_conditional))
                @@ (F_branches :> VList(<<Obj(F_goto :> VStr(S_END))>>))),
            Obj((F_id :> VStr(<<"c">>)) @@ (F_type :> VStr(<<"l", "o", "o", "p">>)))}

RawNodes == RawExecuteNodes \cup RawConditionalNodes

RawFlows ==
    {<<>>} \cup {<<n>> : n \in RawNodes}
      \cup {<<m, n>> : m \in {x \in RawExecuteNodes : WorkflowNode(x).err = "none"},
                       n \in RawNodes}

RawConfigs ==
    {Obj((F_name :> VStr(<<"w">>)) @@ (F_code_type :> VStr(<<"k", "8",
        "s">>)) @@ (F_flow :> VList(f))) :
        f \in RawFlows}
      \cup {Obj((F_name :> VStr(<<"w">>)) @@ (F_code_type :> VStr(<<"k", "8", "s">>))),
            Obj((F_code_type :> VStr(<<"k", "8", "s">>))
                @@ (F_flow :> VList(<<CHOOSE x \in RawExecuteNodes :
                                          WorkflowNode(x).err = "none">>))),
            Obj((F_name :> VStr(<<"w">>)) @@ (F_code_type :> VStr(<<"k", "8", "s">>))
                @@ (S_note :> VStr(<<"n">>))
                @@ (F_flow :> VList(<<CHOOSE x \in RawExecuteNodes :
                                          WorkflowNode(x).err = "none">>)))}

InitLoad ==
    /\ doc \in RawConfigs
    /\ log = <<>>
    /\ Idle

\* load_workflow_config: the payload validated, the workflow returned or
\* the validation error raised
LoadConfig ==
    /\ phase = "idle"
    /\ LET r == WorkflowConfig(doc)
       IN  /\ phase' = IF r.err = "none" THEN "returned" ELSE "raised"
           /\ error' = r.err
           /\ config' = IF r.err = "none" THEN r.val ELSE <<>>
    /\ UNCHANGED <<doc, bank, current, trace, calls, log>>

NextLoad == LoadConfig

SpecLoad == InitLoad /\ [][NextLoad]_vars

\* the payload's nodes, branches and conditions, as far as it has them
RawFlowOf(raw) == IF Has(raw, F_flow) THEN raw.v[F_flow].v ELSE <<>>

RawBranchesOf(n) ==
    IF Has(n, F_branches) /\ n.v[F_branches].t = "list" THEN n.v[F_branches].v ELSE <<>>

IsRawConditional(n) == Has(n, F_type) /\ n.v[F_type] = VStr(T_conditional)

\* a non-blank expression, a complete comparator pair
IsExpression(x) == x.t = "str" /\ Strip(x.v) # <<>>

\* what the claim forbids, read off the payload
EmptyFlow(raw) == RawFlowOf(raw) = <<>>

DuplicateIds(raw) ==
    \E i, j \in 1..Len(RawFlowOf(raw)) :
        /\ i < j
        /\ Has(RawFlowOf(raw)[i], F_id) /\ Has(RawFlowOf(raw)[j], F_id)
        /\ RawFlowOf(raw)[i].v[F_id] = RawFlowOf(raw)[j].v[F_id]

NoBranches(raw) ==
    \E i \in 1..Len(RawFlowOf(raw)) :
        IsRawConditional(RawFlowOf(raw)[i]) /\ RawBranchesOf(RawFlowOf(raw)[i]) = <<>>

MalformedCondition(raw) ==
    \E i \in 1..Len(RawFlowOf(raw)) :
        \E k \in 1..Len(RawBranchesOf(RawFlowOf(raw)[i])) :
            LET b == RawBranchesOf(RawFlowOf(raw)[i])[k]
                c == Field(b, <<F_condition>>, None)
                expr == IsExpression(Field(c, <<F_python>>, None))
                pair == IsStr(Field(c, <<F_op>>, None)) /\ IsStr(Field(c, <<F_compare_to>>, None))
            IN  IsRawConditional(RawFlowOf(raw)[i]) /\ c # None /\ (expr <=> pair)

UnknownField(raw) ==
    \/ S_note \in DOMAIN raw.v
    \/ \E i \in 1..Len(RawFlowOf(raw)) :
          LET n == RawFlowOf(raw)[i]
          IN  \/ S_note \in DOMAIN n.v
              \/ Field(n, <<F_type>>, None) = VStr(T_execute) /\ Has(n, F_branches)
              \/ \E k \in 1..Len(RawBranchesOf(n)) :
                    \/ S_note \in DOMAIN RawBranchesOf(n)[k].v
                    \/ LET c == Field(RawBranchesOf(n)[k], <<F_condition>>, None)
                       IN  c # None /\ S_note \in DOMAIN c.v

\* what the claim promises of a workflow that was returned
WellFormed(cfg) ==
    /\ cfg.flow # <<>>
    /\ \A i, j \in 1..Len(cfg.flow) : i # j => cfg.flow[i].id # cfg.flow[j].id
    /\ \A i \in 1..Len(cfg.flow) :
          cfg.flow[i].type = T_conditional =>
              /\ cfg.flow[i].branches # <<>>
              /\ \A k \in 1..Len(cfg.flow[i].branches) :
                    LET c == cfg.flow[i].branches[k].condition
                    IN  c # None =>
                          (IsExpression(c.python) <=> ~(IsStr(c.op) /\ IsStr(c.compare_to)))

\* C33: every WorkflowConfig that validation accepts has a non-empty flow
\* with pairwise distinct node ids, every conditional node has at least one
\* branch, and every branch condition is either an expression or a complete
\* op/compare_to pair but never both; an input violating one of these, or
\* carrying an unknown field, is rejected and no workflow is returned.
C33_ValidationRejectsMalformed ==
    phase # "idle" =>
        /\ phase = "returned" => WellFormed(config)
        /\ (\/ EmptyFlow(doc) \/ DuplicateIds(doc) \/ NoBranches(doc)
            \/ MalformedCondition(doc) \/ UnknownField(doc))
              => phase = "raised" /\ config = <<>>

\* a workflow of an execute node and a conditional node with a comparator
\* branch was returned
C33_Witness ==
    /\ phase = "returned"
    /\ Len(config.flow) = 2
    /\ config.flow[2].type = T_conditional
    /\ config.flow[2].branches[1].condition # None
    /\ IsStr(config.flow[2].branches[1].condition.op)

\* a payload whose only fault is a condition with an expression and a
\* comparator pair was rejected
C33_RejectWitness ==
    /\ phase = "raised"
    /\ MalformedCondition(doc)
    /\ ~EmptyFlow(doc) /\ ~DuplicateIds(doc) /\ ~NoBranches(doc) /\ ~UnknownField(doc)

S_vars_n == <<"v", "a", "r", "s", ".", "n">>

RefreshOutputs ==
    {<< <<S_result, S_evaluation_path>> >>,
     << <<S_result, S_evaluation_path>>, <<S_score, <<"{", "{", "c", "o", "u", "n", "t", "}",
         "}">>>> >>,
     << <<S_result, S_vars_n>>, <<S_vars_n, <<"{", "{", "m", "}", "}">>>> >>,
     << <<S_result, S_vars_n>>, <<<<"v", "a", "r", "s", ".", "n", ".", "c", "o", "u", "n",
         "t">>, <<"7">>>> >>}

RefreshNodes ==
    {[id |-> S_evaluate, type |-> "execute", node |-> "stub_nodes.SimpleEvaluator",
      inputs |-> <<>>, outputs |-> o, skip_if_output_present |-> FALSE] : o \in RefreshOutputs}

RefreshOutcomes ==
    {[kind |-> "return", result |-> r, bump |-> <<>>] :
        r \in {VMap(S_result :> VMap((S_count :> VInt(5)) @@ (K_x :> VInt(1)))),
               VMap((S_result :> VMap(S_count :> VInt(1))) @@ (S_score :> VInt(9))),
               VMap(S_result :> VInt(3))}}
      \cup {[kind |-> "raise", result |-> None, bump |-> <<>>]}

RefreshBank ==
    VMap((S_count :> VInt(0)) @@ (S_score :> VInt(0))
         @@ (<<"m">> :> VMap(S_count :> VInt(2))))

InitRefresh ==
    /\ doc \in {EmptyMap, VMap(S_vars :> VMap(S_count :> VInt(1)))}
    /\ bank = RefreshBank
    /\ config \in {<<n>> : n \in RefreshNodes}
    /\ current = 0
    /\ phase = "idle"
    /\ error = "none"
    /\ trace = <<>>
    /\ calls = 0
    /\ log = <<>>

NextRefresh == \E outcome \in RefreshOutcomes : RunNode(outcome)

SpecRefresh == InitRefresh /\ [][NextRefresh]_vars

\* the last step completed
Completed ==
    /\ log # <<>>
    /\ LastOp.op = "execute_node"
    /\ LastOp.err = "none"
    /\ LastOp.status = "completed"

\* the path the step's primary output was written to, and what the document
\* holds there now
PrimaryPath ==
    render_string(FirstResultOutput(config[1].outputs, LastOp.outcome.result)[2],
                  LastOp.bank_before, LastOp.before).val.v

StoredNow == resolve_path(doc, PrimaryPath)

\* the bank agrees with the mapping x on every name that is a key of both
BankFollows(x) == \A k \in DOMAIN bank.v \cap DOMAIN x.v : bank.v[k] = x.v[k]

\* a "vars." output of the node wrote over the primary path or a parent of it
WroteOverPrimary ==
    \E i \in 1..Len(config[1].outputs) :
        /\ StartsWith(config[1].outputs[i][1], S_vars_dot)
        /\ IsPrefix(DottedParts(config[1].outputs[i][1]), DottedParts(PrimaryPath))

\* C35 (as stated): at the end of a completed execute step whose stored
\* primary output is a mapping, every bank variable whose name is also a key
\* of that stored mapping holds the mapping's value for that key.
C35_BankFollowsStored ==
    (Completed /\ StoredNow.err = "none" /\ IsDict(StoredNow.val)) => BankFollows(StoredNow.val)

\* C35 (amended): the same, for a step none of whose "vars." outputs wrote
\* over the primary path; after a step that did, the bank follows the
\* mapping the capability returned, which the document no longer holds.
C35_BankFollowsStoredUnlessOverwritten ==
    Completed =>
        IF WroteOverPrimary
        THEN IsDict(LastOp.outcome.result.v[S_result])
                => BankFollows(LastOp.outcome.result.v[S_result])
        ELSE (StoredNow.err = "none" /\ IsDict(StoredNow.val)) => BankFollows(StoredNow.val)

\* a stored mapping with the key "count" brought the bank's count from 0 to 5
C35_Witness ==
    /\ Len(log) = 1
    /\ Completed
    /\ ~WroteOverPrimary
    /\ IsDict(StoredNow.val)
    /\ StoredNow.val.v[S_count] = VInt(5)
    /\ LastOp.bank_before.v[S_count] = VInt(0)
    /\ bank.v[S_count] = VInt(5)

(***************************************************************************)
(* How often one execute step renders an output template against the live  *)
(* bank (executor.py 44-53, 102-150, 169-183): a node whose output         *)
(* templates each raise a counter of their own.                            *)
(***************************************************************************)
S_vars_seen == <<"v", "a", "r", "s", ".", "s", "e", "e", "n">>

OnceOutputs ==
    {<< <<S_result, <<"o", "u", "t", ".", "e", "{", "{", "a", "+", "+", "}", "}">>>> >>,
     << <<S_result, <<"o", "u", "t", ".", "e", "{", "{", "a", "+", "+", "}", "}">>>>,
         <<S_score, <<"{", "{", "b", "+", "+", "}", "}">>>> >>,
     << <<S_result, <<"o", "u", "t", ".", "e">>>>, <<S_vars_seen, <<"{", "{", "b", "+", "+",
         "}", "}">>>>, <<S_evaluation_key, <<"{", "{", "c", "+", "+", "}", "}">>>> >>,
     << <<S_evaluation_key, <<"e", "v", "{", "{", "c", "+", "+", "}", "}">>>>, <<S_result,
         <<"o", "u", "t", ".", "e", "{", "{", "a", "+", "+", "}", "}">>>> >>,
     << <<S_vars_seen, <<"v", "a", "r", "s", ".", "s", "{", "{", "b", "+", "+", "}", "}">>>>,
         <<S_result, <<"o", "u", "t", ".", "e", "{", "{", "a", "+", "+", "}", "}">>>> >>}

OnceNodes ==
    {[id |-> S_evaluate, type |-> "execute", node |-> "stub_nodes.SimpleEvaluator",
      inputs |-> <<>>, outputs |-> o, skip_if_output_present |-> s] :
        o \in OnceOutputs, s \in BOOLEAN}

OnceOutcomes ==
    {[kind |-> "return", result |-> r, bump |-> <<>>] :
        r \in {VMap(S_result :> VMap(K_x :> VInt(1))),
               VMap((S_result :> VMap(K_x :> VInt(1))) @@ (S_score :> VInt(9))),
               VMap(S_evaluation_key :> VStr(<<"z">>)),
               VMap((S_result :> VMap(K_x :> VInt(1))) @@ (S_vars_seen :> VInt(1)))}}
      \cup {[kind |-> "raise", result |-> None, bump |-> <<>>]}

OnceBank == VMap((<<"a">> :> VInt(0)) @@ (<<"b">> :> VInt(0)) @@ (<<"c">> :> VInt(0)))

InitOnce ==
    /\ doc \in {EmptyMap, VMap(<<"o", "u", "t">> :> VMap(<<"e", "0">> :> VMap(K_x :> VInt(1))))}
    /\ bank = OnceBank
    /\ config \in {<<n>> : n \in OnceNodes}
    /\ current = 0
    /\ phase = "idle"
    /\ error = "none"
    /\ trace = <<>>
    /\ calls = 0
    /\ log = <<>>

NextOnce == \E outcome \in OnceOutcomes : RunNode(outcome)

SpecOnce == InitOnce /\ [][NextOnce]_vars

\* the template ends in an increment placeholder, and the counter it names
HasCounter(template) == EndsWith(template, <<"+", "+", "}", "}">>)

CounterOf(template) == <<template[Len(template) - 4]>>

\* by how much the last step raised the counter
Raised(counter) == bank.v[counter].v - LastOp.bank_before.v[counter].v

\* the capability of the last step found the bank as it was before the step
\* (the nodes have no inputs, so nothing but the skip check ran before it)
SkipCheckKeptBank == LastOp.invoked => LastOp.seen.v[S_vars] = LastOp.bank_before

\* how often a completed step renders the template declared under key:
\* once as the primary path, once as provenance, once in the loop over the
\* outputs
Renders(key, result, primary_key) ==
    (IF key = primary_key THEN 1 ELSE 0)
    + (IF EndsWith(key, S_key_suffix) THEN 1 ELSE 0)
    + (IF \/ StartsWith(key, S_vars_dot)
          \/ (key # primary_key /\ ~EndsWith(key, S_key_suffix) /\ ~Has(result, key))
       THEN 1 ELSE 0)

\* C36 (as stated): the skip check never modifies the bank, and an increment
\* placeholder in an output template raises its counter by exactly one per
\* step, whether the step is skipped or executed.
C36_RaisedByOne ==
    (Skipped \/ Completed) =>
        /\ SkipCheckKeptBank
        /\ \A i \in 1..Len(config[1].outputs) :
              HasCounter(config[1].outputs[i][2])
                  => Raised(CounterOf(config[1].outputs[i][2])) = 1

\* C36 (amended): the skip check never modifies the bank; a skipped step
\* renders every output template against the live bank exactly once; a
\* completed step renders a template once if its key is the primary key,
\* once more if the key ends in "_key", and once more if the key starts with
\* "vars." or is a declared extra key that the result does not hold. The
\* counter of an increment placeholder rises by that number.
C36_RaisedOncePerRender ==
    (Skipped \/ Completed) =>
        /\ SkipCheckKeptBank
        /\ \A i \in 1..Len(config[1].outputs) :
              HasCounter(config[1].outputs[i][2])
                  => Raised(CounterOf(config[1].outputs[i][2]))
                       = IF Skipped THEN 1
                         ELSE Renders(config[1].outputs[i][1], LastOp.outcome.result,
                                      FirstResultOutput(config[1].outputs,
                                                        LastOp.outcome.result)[1])

\* a step that ran the capability after a skip check that found nothing,
\* then the same node skipped: its "vars." template raised the counter once
\* in each step, its provenance template once in each step
C36_Witness ==
    /\ Len(log) = 2
    /\ log[1].status = "completed"
    /\ log[1].invoked
    /\ config[1].skip_if_output_present
    /\ Skipped
    /\ bank.v[<<"b">>] = VInt(2)
    /\ bank.v[<<"c">>] = VInt(2)

\* a completed step that left the counter of an extra output untouched
C36_UnrenderedWitness ==
    /\ Completed
    /\ \E i \in 1..Len(config[1].outputs) :
          /\ HasCounter(config[1].outputs[i][2])
          /\ Raised(CounterOf(config[1].outputs[i][2])) = 0

\* ---------------------------------------------------------------------
\* The document's "vars" section after an aborted run (engine.py 30-66,
\* executor.py 88-92)
\* ---------------------------------------------------------------------

\* the "vars" section of a document: the one value it holds, or nothing
VarsSection(d) == IF Has(d, S_vars) THEN <<d.v[S_vars]>> ELSE <<>>

\* C37: if execute_workflow aborts with an error at any node, the document's
\* persisted "vars" section still holds exactly the value it had before the
\* run started.
C37_VarsSectionKept ==
    Aborted => VarsSection(doc) = VarsSection(log[1].before)

\* an aborted run whose document came with a "vars" mapping and has none
\* now: the binding of an invocation replaced it and its removal deleted it
C37_SectionLost ==
    /\ Aborted
    /\ calls > 0
    /\ Has(log[1].before, S_vars)
    /\ IsDict(log[1].before.v[S_vars])
    /\ ~Has(doc, S_vars)

\* without an invocation an aborted run leaves the document as it found it
C37_KeptWithoutInvocation ==
    (Aborted /\ calls = 0) => doc = log[1].before

\* ---------------------------------------------------------------------
\* The document after a write that failed (store.py 33-86)
\* ---------------------------------------------------------------------

\* C38: a write_path or write_with_metadata call that fails with a type
\* error leaves the document exactly as it was before the call: no
\* intermediate mapping is created and no existing value is replaced on the
\* way to the blocking segment.
C38_FailedWriteKeepsDocument ==
    (Wrote /\ LastOp.err = "TypeError") => doc = LastOp.before

\* "a.b" was written with 1 into an empty document, creating "a", and then
\* a write with metadata to "a.b.c" ran into the 1 after passing "a"
C38_Witness ==
    /\ Len(log) = 2
    /\ log[1].before = EmptyMap
    /\ log[1].path = P_a_b /\ log[1].value = VInt(1) /\ log[1].err = "none"
    /\ log[2].op = "write_with_metadata"
    /\ log[2].path = P_a_b_c /\ log[2].err = "TypeError"
    /\ doc = VMap(<<"a">> :> VMap(<<"b">> :> VInt(1)))

\* ---------------------------------------------------------------------
\* The bank after a render that failed (templating.py 28-57, 92-138)
\* ---------------------------------------------------------------------
RenderFailed == log # <<>> /\ LastOp.op = "render_string" /\ LastOp.err = "TemplateError"

\* the placeholders of the last template, in order
Placeholders == FindMatches(LastOp.template, 1)

\* the template cut after its i-th placeholder does not render
FailsAt(i) ==
    render_string(SubSeq(LastOp.template, 1, Placeholders[i].last),
                  LastOp.bank_before, LastOp.before).err # "none"

FirstFailing ==
    CHOOSE i \in 1..Len(Placeholders) : FailsAt(i) /\ \A j \in 1..(i - 1) : ~FailsAt(j)

\* the variable that placeholder i increments, <<>> if it increments none
IncrementName(i) ==
    LET expr == Strip(Placeholders[i].group)
    IN  IF StartsWith(expr, S_plusplus) THEN Strip(SubSeq(expr, 3, Len(expr)))
        ELSE IF EndsWith(expr, S_plusplus) THEN Strip(SubSeq(expr, 1, Len(expr) - 2))
        ELSE <<>>

\* the variables incremented by the placeholders before the failing one, and
\* how many of those placeholders increment the variable
PrecedingNames == {IncrementName(i) : i \in 1..(FirstFailing - 1)} \ {<<>>}

TimesRaised(name) == Cardinality({i \in 1..(FirstFailing - 1) : IncrementName(i) = name})

RECURSIVE PlusN(_, _)
PlusN(x, n) == IF n = 0 THEN x ELSE PlusN(PlusOne(x), n - 1)

\* C39 (as stated): a render_string call that raises TemplateError leaves
\* the variable bank unchanged: increments from placeholders that precede
\* the failing placeholder in the same template are not applied.
C39_FailedRenderKeepsBank == RenderFailed => bank = LastOp.bank_before

\* C39 (amended): a render_string call that raises TemplateError leaves the
\* bank with the increments of the placeholders that precede the failing one
\* applied, one per such placeholder, and with nothing else changed.
C39_FailedRenderKeepsIncrements ==
    RenderFailed =>
        /\ DOMAIN bank.v = DOMAIN LastOp.bank_before.v
        /\ \A name \in PrecedingNames :
              _resolve_mapping_path(bank, name).val
                  = PlusN(_resolve_mapping_path(LastOp.bank_before, name).val,
                          TimesRaised(name))
        /\ \A k \in DOMAIN bank.v :
              (\A name \in PrecedingNames : DottedParts(name)[1] # k)
                  => bank.v[k] = LastOp.bank_before.v[k]

\* "{{n.k++}}{{count++}}{{name++}}" failed at its third placeholder, on a
\* text, with both counters before it raised by one
C39_Witness ==
    /\ RenderFailed
    /\ LastOp.template = S_increments_then_text
    /\ FirstFailing = 3
    /\ bank.v[S_count] = PlusOne(LastOp.bank_before.v[S_count])
    /\ bank.v[<<"n">>].v[<<"k">>] = PlusOne(LastOp.bank_before.v[<<"n">>].v[<<"k">>])
    /\ bank.v[<<"n", "a", "m", "e">>] = LastOp.bank_before.v[<<"n", "a", "m", "e">>]

\* "{{missing}}-{{count++}}" failed at its first placeholder and left the
\* bank as it was
C39_FirstFailsWitness ==
    /\ RenderFailed
    /\ LastOp.template = S_missing_then_increment
    /\ bank = LastOp.bank_before

\* ---------------------------------------------------------------------
\* The terminal sentinel and a node of the same name (engine.py 37-60,
\* models.py 55-67)
\* ---------------------------------------------------------------------
HasEndNode == S_END \in FlowIds

\* the i-th visit was reached by the program counter: it is the first node
\* of the flow at the start of the run, or the node after an execute node
ReachedByCounter(i) ==
    IF i = 1 THEN trace[i].index = 0
    ELSE trace[i - 1].type = "execute" /\ trace[i].index = trace[i - 1].index + 1

\* C40: the routing target "END" always stops the run, also when the flow
\* contains a node whose id is "END": such a node can be reached only by the
\* program counter advancing into it, never by a conditional's goto or else
\* target.
C40_EndStopsDespiteEndNode ==
    HasEndNode =>
        /\ \A i \in 1..Len(trace) :
              (trace[i].status = "routed" /\ trace[i].goto = S_END)
                  => /\ i = Len(trace)
                     /\ phase \in {"break", "returned", "raised"}
                     /\ current = trace[i].index
        /\ \A i \in 1..Len(trace) : trace[i].id = S_END => ReachedByCounter(i)

\* a run over a flow with a node "END": the node was visited once, after the
\* node before it, and a conditional that routed to "END" later ended the run
C40_Witness ==
    /\ HasEndNode
    /\ phase = "returned"
    /\ Len(trace) >= 3
    /\ trace[2].id = S_END /\ trace[2].type = "execute" /\ trace[2].status = "completed"
    /\ Last(trace).status = "routed" /\ Last(trace).goto = S_END
    /\ \A i \in 3..Len(trace) : trace[i].id # S_END

====
